---- MODULE Spec2Model ----
(***************************************************************************)
(* qwc-ogc-service: a permission-filtering proxy in front of QGIS Server.  *)
(* The model follows one inbound request (WMS, WFS or OGC API Features)    *)
(* from the permission lookup through request validation and rewriting,    *)
(* the single HTTP call to the backend, and the response to the client.    *)
(*                                                                         *)
(* Representation of Python values:                                        *)
(*  - a params dict is a function whose DOMAIN is the set of present keys; *)
(*  - a comma separated string is the non-empty sequence str.split(',')    *)
(*    yields, so '' is <<"">> and 'a,,b' is <<"a","","b">>;                *)
(*  - WFS layer and attribute names are sequences of characters, because   *)
(*    the code rewrites them character by character;                       *)
(*  - an uncaught Python exception is the outcome "crash".                 *)
(***************************************************************************)
EXTENDS Integers, Sequences, FiniteSets, TLC

VARIABLES
    inbound,        \* the request as received: protocol, method, verb, path
    params,         \* request parameters, rewritten in place by the handlers
    data,           \* request payload, rewritten in place by the handlers
    permissions,    \* PermissionSet of (identity, service)
    pc,             \* position of the request in OGCService/OGCAPIService.request
    forwarded,      \* HTTP calls made to the backend for this request
    backend,        \* what the backend answered to the pending call
    response,       \* what the client receives
    resources,      \* ResourceCatalog of the service (PermissionModel)
    grants,         \* role grants returned by the permission store
    namespace_map,  \* xml.etree.ElementTree._namespace_map (process wide)
    threads         \* concurrently handled requests (worker threads)

vars == <<inbound, params, data, permissions, pc, forwarded, backend, response,
          resources, grants, namespace_map, threads>>

Unused == "-"

(***************************************************************************)
(* Python helpers                                                          *)
(***************************************************************************)
\* key in dict
Has(d, k) == k \in DOMAIN d

\* the empty dict {}
EmptyDict == <<>>

Blank == <<"">>

\* ",".join(items): the empty list joins to '', which splits to ['']
Join(items) == IF items = <<>> THEN Blank ELSE items

\* truthiness of a comma separated parameter value
TruthyCsv(d, k) == Has(d, k) /\ d[k] # Blank

\* d with d[k] = v (assignment creating or replacing the key)
Put(d, k, v) == [x \in DOMAIN d \cup {k} |-> IF x = k THEN v ELSE d[x]]

SeqToSet(s) == {s[i] : i \in DOMAIN s}

RECURSIVE Concat(_)
Concat(ss) == IF ss = <<>> THEN <<>> ELSE Head(ss) \o Concat(Tail(ss))

(***************************************************************************)
(* Name cleaning (wfs_handler.py)                                          *)
(***************************************************************************)
\* characters matched by [\w.\-_] in the model's alphabet
WordChars ==
    {"a", "b", "c", "d", "e", "f", "g", "h", "i", "j", "k", "l", "m", "n", "o", "p",
     "q", "r", "s", "t", "u", "v", "w", "x", "y", "z", "0", "1", "2", "3", "4", "5",
     "6", "7", "8", "9", "_", ".", "-"}

MapChars(name, F(_)) == [i \in DOMAIN name |-> F(name[i])]

wfs_clean_layer_name(layer_name) ==
    MapChars(MapChars(layer_name, LAMBDA c : IF c = " " THEN "_" ELSE c),
             LAMBDA c : IF c = ":" THEN "-" ELSE c)

wfs_clean_attribute_name(attribute_name) ==
    SelectSeq(MapChars(attribute_name, LAMBDA c : IF c = " " THEN "_" ELSE c),
              LAMBDA c : c \in WordChars)

\* str.split(".")[0]
RECURSIVE FirstDotSegment(_)
FirstDotSegment(s) ==
    IF s = <<>> \/ Head(s) = "." THEN <<>>
    ELSE <<Head(s)>> \o FirstDotSegment(Tail(s))

(***************************************************************************)
(* WMS request handler (wms_handler.py)                                    *)
(***************************************************************************)
\* layer names for which layer.startswith('EXTERNAL_WMS:') holds
ExternalWmsLayers == {"EXTERNAL_WMS:A"}

\* one item of OPACITIES: int(item) succeeds with value val, or raises
OpStr(n) == [int |-> TRUE, val |-> n]

\* the empty item '': int('') raises
NotAnInt == [int |-> FALSE, val |-> 0]

\* an item that is no number: int('abc') raises
NotANumber == [int |-> FALSE, val |-> 0, text |-> "abc"]

\* truthiness of a scalar string parameter
TruthyStr(d, k) == Has(d, k) /\ d[k] # ""

\* params.get(k1) != params.get(k2), None when the key is absent
ParamsDiffer(d, k1, k2) ==
    \/ Has(d, k1) # Has(d, k2)
    \/ Has(d, k1) /\ Has(d, k2) /\ d[k1] # d[k2]

NoError == [code |-> "", subject |-> ""]

IsError(e) == e.code # ""

\* key[0:-7] for the first key ending with ":EXTENT", else ""
get_map_param_prefix(p) == IF Has(p, "map0:EXTENT") THEN "map0" ELSE ""

\* mapname + ":LAYERS"
MapLayersParam(mapname) == IF mapname = "map0" THEN "map0:LAYERS" ELSE ":LAYERS"

\* a list of verbs that has the legacy GETLEGENDGRAPHICS as well
WmsRequests_Legacy ==
    {"GETCAPABILITIES", "GETMAP", "GETFEATUREINFO", "GETLEGENDGRAPHIC", "GETSTYLE",
     "GETSTYLES", "DESCRIBELAYER", "GETPRINT", "GETPROJECTSETTINGS",
     "GETSCHEMAEXTENSION", "GETLEGENDGRAPHICS"}

WmsRequests ==
    {"GETCAPABILITIES", "GETMAP", "GETFEATUREINFO", "GETLEGENDGRAPHIC", "GETSTYLE",
     "GETSTYLES", "DESCRIBELAYER", "GETPRINT", "GETPROJECTSETTINGS",
     "GETSCHEMAEXTENSION"}

layer_mandatory_requests ==
    {"GETMAP", "GETFEATUREINFO", "GETLEGENDGRAPHIC", "DESCRIBELAYER", "GETSTYLE",
     "GETSTYLES"}

InfoFormats == {"text/plain", "text/html", "text/xml"}

\* the layers parameter that WmsHandler.process_request validates
WmsLayersParam(request, p) ==
    IF request = "GETPRINT"
    THEN IF get_map_param_prefix(p) # ""
            /\ Has(p, MapLayersParam(get_map_param_prefix(p)))
         THEN MapLayersParam(get_map_param_prefix(p)) ELSE "LAYERS"
    ELSE IF request = "GETLEGENDGRAPHIC" /\ ~Has(p, "LAYERS") /\ Has(p, "LAYER")
         THEN "LAYER" ELSE "LAYERS"

\* internal_print_layers allowed for every verb
WmsAllowedLayers_AlwaysPrint(request, p, perm) ==
    SeqToSet(perm.public_layers) \cup SeqToSet(perm.internal_print_layers)

\* public_layers, plus internal_print_layers for raster export and printing
WmsAllowedLayers(request, p, perm) ==
    SeqToSet(perm.public_layers) \cup
    (IF (request = "GETMAP" /\ TruthyStr(p, "FILENAME")) \/ request = "GETPRINT"
     THEN SeqToSet(perm.internal_print_layers) ELSE {})

\* a check that lets every layer name pass
WmsLayerRejected_AnyLayer(layer, allowed) == FALSE

WmsLayerRejected(layer, allowed) ==
    layer # "" /\ layer \notin ExternalWmsLayers /\ layer \notin allowed

\* a validation that checks INFO_FORMAT before QUERY_LAYERS
WmsCheck_FormatFirst(request, p, perm) ==
    LET layers_param == WmsLayersParam(request, p)
        allowed == WmsAllowedLayers(request, p, perm)
        bad == IF TruthyCsv(p, layers_param)
               THEN SelectSeq(p[layers_param], LAMBDA l : WmsLayerRejected(l, allowed))
               ELSE <<>>
    IN  IF request \notin WmsRequests
        THEN [code |-> "OperationNotSupported", subject |-> request]
        ELSE IF bad # <<>>
        THEN [code |-> "LayerNotDefined", subject |-> Head(bad)]
        ELSE IF ~TruthyCsv(p, layers_param) /\ request \in layer_mandatory_requests
        THEN [code |-> "MissingParameterValue", subject |-> layers_param]
        ELSE IF request = "GETFEATUREINFO" /\ Has(p, "INFO_FORMAT")
                /\ p["INFO_FORMAT"] \notin InfoFormats
        THEN [code |-> "InvalidFormat", subject |-> p["INFO_FORMAT"]]
        ELSE IF request = "GETFEATUREINFO" /\ ParamsDiffer(p, "LAYERS", "QUERY_LAYERS")
        THEN [code |-> "InvalidParameterValue", subject |-> "QUERY_LAYERS"]
        ELSE IF request = "GETPRINT"
                /\ (~Has(p, "TEMPLATE")
                    \/ p["TEMPLATE"] \notin SeqToSet(perm.print_templates))
        THEN [code |-> "Error", subject |-> "TEMPLATE"]
        ELSE NoError

\* the validation part of WmsHandler.process_request: first error, or NoError
WmsCheck(request, p, perm) ==
    LET layers_param == WmsLayersParam(request, p)
        allowed == WmsAllowedLayers(request, p, perm)
        bad == IF TruthyCsv(p, layers_param)
               THEN SelectSeq(p[layers_param], LAMBDA l : WmsLayerRejected(l, allowed))
               ELSE <<>>
    IN  IF request \notin WmsRequests
        THEN [code |-> "OperationNotSupported", subject |-> request]
        ELSE IF bad # <<>>
        THEN [code |-> "LayerNotDefined", subject |-> Head(bad)]
        ELSE IF ~TruthyCsv(p, layers_param) /\ request \in layer_mandatory_requests
        THEN [code |-> "MissingParameterValue", subject |-> layers_param]
        ELSE IF request = "GETFEATUREINFO" /\ ParamsDiffer(p, "LAYERS", "QUERY_LAYERS")
        THEN [code |-> "InvalidParameterValue", subject |-> "QUERY_LAYERS"]
        ELSE IF request = "GETFEATUREINFO" /\ Has(p, "INFO_FORMAT")
                /\ p["INFO_FORMAT"] \notin InfoFormats
        THEN [code |-> "InvalidFormat", subject |-> p["INFO_FORMAT"]]
        ELSE IF request = "GETPRINT"
                /\ (~Has(p, "TEMPLATE")
                    \/ p["TEMPLATE"] \notin SeqToSet(perm.print_templates))
        THEN [code |-> "Error", subject |-> "TEMPLATE"]
        ELSE NoError

\* truthy permissions['restricted_group_layers'].get(layer)
IsFacade(layer, perm) ==
    /\ layer \in DOMAIN perm.restricted_group_layers
    /\ perm.restricted_group_layers[layer] # <<>>

\* int(num / 100): the percentage truncated
RoundPercent_Truncated(num) == num \div 100

\* Python round(pct / 100 * opacity) with num = pct * opacity: the nearest
\* integer, a tie going to the even one. (In floating point pct / 100 * opacity
\* can fall just beside a tie, which then goes to that side; for the
\* percentages 50, 70 and 100 of the inputs and the opacities 0, 128 and 255
\* the result is the one computed here.)
RoundPercent(num) ==
    LET q == num \div 100
        r == num % 100
    IN  IF 2 * r < 100 THEN q
        ELSE IF 2 * r > 100 THEN q + 1
        ELSE IF q % 2 = 0 THEN q ELSE q + 1

\* WmsHandler.__expand_restricted_group, for sublayers that are not facades
expand_restricted_group(layers, opacity, perm) ==
    [i \in DOMAIN layers |->
        [layer |-> layers[i],
         opacity |-> RoundPercent(perm.permitted_layers[layers[i]].opacity * opacity),
         style |-> ""]]

\* the call self.expand_restricted_group(...) names a method that does not
\* exist (the method is __expand_restricted_group): AttributeError
ExpandRaises(layers, perm) == \E i \in DOMAIN layers : IsFacade(layers[i], perm)

RequestedLayers(p, layers_param) ==
    IF Has(p, layers_param) THEN p[layers_param] ELSE Blank

\* WmsHandler.__expand_group_layers
expand_group_layers(p, layers_param, perm) ==
    LET requested_layers == RequestedLayers(p, layers_param)
        requested_opacities == IF Has(p, "OPACITIES") THEN p["OPACITIES"] ELSE <<NotAnInt>>
        requested_styles == IF Has(p, "STYLES") THEN p["STYLES"] ELSE Blank
        opacity(i) == IF i <= Len(requested_opacities) /\ requested_opacities[i].int
                      THEN IF requested_opacities[i].val < 0 THEN 0
                           ELSE IF requested_opacities[i].val > 255 THEN 255
                           ELSE requested_opacities[i].val
                      ELSE 255
        style(i) == IF i <= Len(requested_styles) THEN requested_styles[i] ELSE ""
        entry(i) == [layer |-> requested_layers[i], opacity |-> opacity(i),
                     style |-> style(i)]
    IN  Concat([i \in DOMAIN requested_layers |->
            IF requested_layers[i] \in ExternalWmsLayers THEN <<entry(i)>>
            ELSE IF IsFacade(requested_layers[i], perm)
            THEN expand_restricted_group(
                     perm.restricted_group_layers[requested_layers[i]], opacity(i), perm)
            ELSE <<entry(i)>>])

ExpandGroupRaises(p, layers_param, perm) ==
    \E l \in SeqToSet(RequestedLayers(p, layers_param)) :
        /\ l \notin ExternalWmsLayers
        /\ IsFacade(l, perm)
        /\ ExpandRaises(perm.restricted_group_layers[l], perm)

Layers(expanded) == Join([i \in DOMAIN expanded |-> expanded[i].layer])

Opacities(expanded) ==
    IF expanded = <<>> THEN <<NotAnInt>>
    ELSE [i \in DOMAIN expanded |-> OpStr(expanded[i].opacity)]

Styles(expanded) == Join([i \in DOMAIN expanded |-> expanded[i].style])

\* FORMAT.split(';')[0]
FormatBase(f) == IF f = "image/png; mode=8bit" THEN "image/png" ELSE f

\* the layers parameter WmsHandler.process_request rewrites for a verb
WmsRewrittenParam(request, p) ==
    IF request = "GETPRINT" THEN MapLayersParam(get_map_param_prefix(p)) ELSE "LAYERS"

\* the "Adjust params" part of WmsHandler.process_request raises
WmsAdjustRaises(request, p, perm) ==
    \/ /\ request \in {"GETMAP", "GETFEATUREINFO", "GETLEGENDGRAPHIC", "DESCRIBELAYER",
                       "GETPRINT"}
       /\ ExpandGroupRaises(p, WmsRewrittenParam(request, p), perm)
    \/ request = "GETFEATUREINFO" /\ ~Has(p, "INFO_FORMAT")

\* an adjustment that forwards every expanded layer of a GETFEATUREINFO
WmsAdjust_AllExpanded(request, p, perm) ==
    LET lp == WmsRewrittenParam(request, p)
        expanded == expand_group_layers(p, lp, perm)
    IN  CASE request = "GETMAP" ->
                Put(Put(Put(p, "LAYERS", Layers(expanded)),
                        "OPACITIES", Opacities(expanded)), "STYLES", Styles(expanded))
          [] request = "GETFEATUREINFO" ->
                Put(Put(Put(Put(p, "LAYERS", Layers(expanded)),
                            "STYLES", Styles(expanded)),
                        "QUERY_LAYERS", Layers(expanded)), "INFO_FORMAT", "text/xml")
          [] request = "GETLEGENDGRAPHIC" ->
                Put(Put(Put(p, "LAYERS", Layers(expanded)), "STYLES", Styles(expanded)),
                    "FORMAT", IF Has(p, "FORMAT") THEN FormatBase(p["FORMAT"]) ELSE "")
          [] request = "DESCRIBELAYER" ->
                Put(p, "LAYERS", Layers(expanded))
          [] request = "GETPRINT" ->
                Put(Put(Put(Put(p, lp, Layers(expanded)),
                            "OPACITIES", Opacities(expanded)), "STYLES", Styles(expanded)),
                    "LAYERS", Layers(expanded))
          [] OTHER -> p

\* the "Adjust params" part of WmsHandler.process_request
\* (legend_default_font_size is not configured)
WmsAdjust(request, p, perm) ==
    LET lp == WmsRewrittenParam(request, p)
        expanded == expand_group_layers(p, lp, perm)
        queryable == SelectSeq(expanded, LAMBDA e :
                        /\ e.layer \in DOMAIN perm.permitted_layers
                        /\ perm.permitted_layers[e.layer].queryable)
    IN  CASE request = "GETMAP" ->
                Put(Put(Put(p, "LAYERS", Layers(expanded)),
                        "OPACITIES", Opacities(expanded)), "STYLES", Styles(expanded))
          [] request = "GETFEATUREINFO" ->
                Put(Put(Put(Put(p, "LAYERS", Layers(queryable)),
                            "STYLES", Styles(queryable)),
                        "QUERY_LAYERS", Layers(queryable)), "INFO_FORMAT", "text/xml")
          [] request = "GETLEGENDGRAPHIC" ->
                Put(Put(Put(p, "LAYERS", Layers(expanded)), "STYLES", Styles(expanded)),
                    "FORMAT", IF Has(p, "FORMAT") THEN FormatBase(p["FORMAT"]) ELSE "")
          [] request = "DESCRIBELAYER" ->
                Put(p, "LAYERS", Layers(expanded))
          [] request = "GETPRINT" ->
                Put(Put(Put(Put(p, lp, Layers(expanded)),
                            "OPACITIES", Opacities(expanded)), "STYLES", Styles(expanded)),
                    "LAYERS", Layers(expanded))
          [] OTHER -> p

\* WmsHandler.process_request: the error it returns, the rewritten params,
\* whether it raised, and the handler field self.requested_info_format
WmsHandler_process_request(request, p, perm) ==
    LET error == WmsCheck(request, p, perm)
        raised == ~IsError(error) /\ WmsAdjustRaises(request, p, perm)
    IN  [error |-> error,
         raised |-> raised,
         params |-> IF IsError(error) \/ raised THEN p ELSE WmsAdjust(request, p, perm),
         requested_info_format |->
            IF request = "GETFEATUREINFO" /\ ~IsError(error) /\ ~raised
            THEN p["INFO_FORMAT"] ELSE ""]

(***************************************************************************)
(* WFS request handler (wfs_handler.py)                                    *)
(***************************************************************************)
WfsRequests == {"GETCAPABILITIES", "GETFEATURE", "DESCRIBEFEATURETYPE", "TRANSACTION"}

\* the literal "geometry"
Geometry == <<"g", "e", "o", "m", "e", "t", "r", "y">>

\* a request without payload (data is None)
NoData == [present |-> FALSE, body |-> <<>>]

\* params.get(k, "").split(","), names being character sequences
CsvNames(p, k) == IF Has(p, k) THEN p[k] ELSE << <<>> >>

\* checks that look at TYPENAME only
WfsCheckParams_TypenameOnly(request, p, perm) ==
    LET badType == SelectSeq(CsvNames(p, "TYPENAME"), LAMBDA t :
                      /\ t # <<>>
                      /\ wfs_clean_layer_name(t) \notin DOMAIN perm.permitted_layers)
    IN  IF request \notin WfsRequests
        THEN [code |-> "OperationNotSupported", subject |-> <<>>]
        ELSE IF badType # <<>>
        THEN [code |-> "RequestNotWellFormed", subject |-> Head(badType)]
        ELSE [code |-> "", subject |-> <<>>]

\* the TYPENAME and FEATUREID checks of WfsHandler.process_request
WfsCheckParams(request, p, perm) ==
    LET badType == SelectSeq(CsvNames(p, "TYPENAME"), LAMBDA t :
                      /\ t # <<>>
                      /\ wfs_clean_layer_name(t) \notin DOMAIN perm.permitted_layers)
        badFid == SelectSeq(CsvNames(p, "FEATUREID"), LAMBDA f :
                      /\ f # <<>>
                      /\ wfs_clean_layer_name(FirstDotSegment(f))
                            \notin DOMAIN perm.permitted_layers)
    IN  IF request \notin WfsRequests
        THEN [code |-> "OperationNotSupported", subject |-> <<>>]
        ELSE IF badType # <<>>
        THEN [code |-> "RequestNotWellFormed", subject |-> Head(badType)]
        ELSE IF badFid # <<>>
        THEN [code |-> "RequestNotWellFormed", subject |-> FirstDotSegment(Head(badFid))]
        ELSE [code |-> "", subject |-> <<>>]

\* permissions['permitted_layers'].get(typename) is truthy
WfsPermitted(typename, perm) == typename \in DOMAIN perm.permitted_layers

\* attribute elements of an inserted feature / Property entries of an Update
\* that WfsHandler.__check_transaction keeps
KeepAttributes(names, permitted_attributes) ==
    SelectSeq(names, LAMBDA a :
        \/ wfs_clean_attribute_name(a) = Geometry
        \/ wfs_clean_attribute_name(a) \in permitted_attributes)

\* the typenames for which an operation of the transaction lacks its flag,
\* in the order WfsHandler.__check_transaction meets them:
\* every wfs:Insert, then every wfs:Update, then every wfs:Delete
TransactionForbidden(body, perm) ==
    LET opsOf(kind) == SelectSeq(body, LAMBDA op : op.kind = kind)
        inserted == Concat([i \in DOMAIN opsOf("Insert") |->
                        [j \in DOMAIN opsOf("Insert")[i].features |->
                            wfs_clean_layer_name(opsOf("Insert")[i].features[j].tag)]])
        named(kind) == [i \in DOMAIN opsOf(kind) |->
                            wfs_clean_layer_name(opsOf(kind)[i].typeName)]
    IN  SelectSeq(inserted, LAMBDA t :
            WfsPermitted(t, perm) /\ ~perm.permitted_layers[t].creatable)
        \o SelectSeq(named("Update"), LAMBDA t :
            WfsPermitted(t, perm) /\ ~perm.permitted_layers[t].updatable)
        \o SelectSeq(named("Delete"), LAMBDA t :
            WfsPermitted(t, perm) /\ ~perm.permitted_layers[t].deletable)

\* one filtered wfs:Insert: typename elements of layers that are not
\* permitted are removed, the others keep their permitted attributes
\* an Insert forwarded as received
FilterInsert_KeepAll(op, perm) == op

FilterInsert(op, perm) ==
    LET kept == SelectSeq(op.features, LAMBDA f :
                    WfsPermitted(wfs_clean_layer_name(f.tag), perm))
    IN  [op EXCEPT !.features = [j \in DOMAIN kept |->
            [kept[j] EXCEPT !.attrs = KeepAttributes(kept[j].attrs,
                perm.permitted_layers[wfs_clean_layer_name(kept[j].tag)].attributes)]]]

\* an Update forwarded as received
FilterUpdate_KeepAll(op, perm) == op

FilterUpdate(op, perm) ==
    [op EXCEPT !.props = KeepAttributes(op.props,
        perm.permitted_layers[wfs_clean_layer_name(op.typeName)].attributes)]

\* the transaction document WfsHandler.__check_transaction writes back
FilterTransaction(body, perm) ==
    LET kept == SelectSeq(body, LAMBDA op :
                    \/ op.kind = "Insert"
                    \/ WfsPermitted(wfs_clean_layer_name(op.typeName), perm))
    IN  [i \in DOMAIN kept |->
            CASE kept[i].kind = "Insert" -> FilterInsert(kept[i], perm)
              [] kept[i].kind = "Update" -> FilterUpdate(kept[i], perm)
              [] OTHER -> kept[i]]

\* WfsHandler.__check_transaction: Forbidden for the first operation without
\* its flag (data['body'] is then left as received), else the filtered body
check_transaction(d, perm) ==
    LET forbidden == TransactionForbidden(d.body, perm)
    IN  IF forbidden # <<>>
        THEN [error |-> [code |-> "Forbidden", subject |-> Head(forbidden)], data |-> d]
        ELSE [error |-> [code |-> "", subject |-> <<>>],
              data |-> [d EXCEPT !.body = FilterTransaction(d.body, perm)]]

\* OUTPUTFORMAT after format_map.get(OUTPUTFORMAT.lower(), default by VERSION)
OutputFormat(p, version) ==
    LET f == IF Has(p, "OUTPUTFORMAT") THEN p["OUTPUTFORMAT"] ELSE ""
    IN  IF f \in {"gml2", "GML2", "text/xml; subtype=gml/2.1.2"} THEN "gml2"
        ELSE IF f \in {"gml3", "GML3", "text/xml; subtype=gml/3.1.1"} THEN "gml3"
        ELSE IF f \in {"geojson", "GeoJSON", "application/vnd.geo+json",
                       "application/vnd.geo json", "application/geo+json",
                       "application/geo json", "application/json"} THEN "geojson"
        ELSE IF version = "1.1.0" THEN "gml3" ELSE "gml2"

\* the "Adjust params" part of WfsHandler.process_request
WfsAdjust(request, p) ==
    LET versioned == IF Has(p, "VERSION") /\ p["VERSION"] \in {"1.0.0", "1.1.0"}
                     THEN p ELSE Put(p, "VERSION", "1.1.0")
    IN  IF request = "GETFEATURE"
        THEN Put(versioned, "OUTPUTFORMAT", OutputFormat(versioned, versioned["VERSION"]))
        ELSE versioned

\* WfsHandler.process_request: the error it returns, the rewritten params
\* and the rewritten payload
WfsHandler_process_request(request, p, perm, d) ==
    LET error == WfsCheckParams(request, p, perm)
        checked == IF request = "TRANSACTION" /\ d.present
                   THEN check_transaction(d, perm)
                   ELSE [error |-> [code |-> "", subject |-> <<>>], data |-> d]
    IN  IF IsError(error)
        THEN [error |-> error, raised |-> FALSE, params |-> p, data |-> d]
        ELSE [error |-> checked.error, raised |-> FALSE,
              params |-> WfsAdjust(request, p), data |-> checked.data]

(***************************************************************************)
(* OGC API Features request filters (ogcapi_service.py)                    *)
(***************************************************************************)
\* feature_handlers: the routes api_path can match and their allowed methods
allowed_methods(route) ==
    CASE route \in {"landing", "api", "conformance", "collections", "collection"} -> {"GET"}
      [] route = "items" -> {"GET", "POST"}
      [] route = "item" -> {"DELETE", "GET", "PATCH", "PUT"}
      [] OTHER -> {}

ApiNotFound == [code |-> "API not found error", status |-> 404]

\* a Forbidden branch that reports no error
ApiForbidden_NoError == [code |-> "", status |-> 200]

ApiForbidden == [code |-> "Forbidden", status |-> 403]

ApiOk == [code |-> "", status |-> 200]

\* a payload forwarded with every property key it came with
FilterKeys_KeepAll(d, key, layer_permissions) == d

\* the property keys kept by dict(filter(...)) on data[key]
FilterKeys(d, key, layer_permissions) ==
    IF Has(d.body, key)
    THEN [d EXCEPT !.body[key] = {a \in d.body[key] :
            wfs_clean_attribute_name(a) \in layer_permissions.attributes}]
    ELSE d

\* every flag read as granted
Flag_Granted(layer_permissions, flag) == TRUE

\* layer_permissions.get(flag): the flag is set and true
Flag(layer_permissions, flag) == layer_permissions[flag]

\* __describeCollection_request
describeCollection_request(path, d, perm) ==
    LET layer_name == wfs_clean_layer_name(path.id)
    IN  IF ~Has(perm, layer_name) \/ ~Flag(perm[layer_name], "readable")
        THEN [error |-> ApiNotFound, data |-> d]
        ELSE [error |-> ApiOk, data |-> d]

\* __getFeatures_request
getFeatures_request(method, path, d, perm) ==
    LET layer_name == wfs_clean_layer_name(path.id)
    IN  IF ~Has(perm, layer_name)
           \/ (method = "GET" /\ ~Flag(perm[layer_name], "readable"))
        THEN [error |-> ApiNotFound, data |-> d]
        ELSE IF method = "POST"
        THEN IF ~Flag(perm[layer_name], "writable") \/ ~Flag(perm[layer_name], "creatable")
             THEN [error |-> ApiForbidden, data |-> d]
             ELSE [error |-> ApiOk, data |-> FilterKeys(d, "properties", perm[layer_name])]
        ELSE [error |-> ApiOk, data |-> d]

\* __getFeature_request
getFeature_request(method, path, d, perm) ==
    LET layer_name == wfs_clean_layer_name(path.id)
        lp == perm[layer_name]
    IN  IF ~Has(perm, layer_name) \/ (method = "GET" /\ ~Flag(lp, "readable"))
        THEN [error |-> ApiNotFound, data |-> d]
        ELSE IF method = "PATCH"
        THEN IF ~Flag(lp, "writable") \/ ~Flag(lp, "updatable")
             THEN [error |-> ApiForbidden, data |-> d]
             ELSE [error |-> ApiOk, data |-> FilterKeys(d, "modify", lp)]
        ELSE IF method = "PUT"
        THEN IF ~Flag(lp, "writable") \/ ~Flag(lp, "updatable")
             THEN [error |-> ApiForbidden, data |-> d]
             ELSE [error |-> ApiOk, data |-> FilterKeys(d, "properties", lp)]
        ELSE IF method = "DELETE"
        THEN IF ~Flag(lp, "writable") \/ ~Flag(lp, "deletable")
             THEN [error |-> ApiForbidden, data |-> d]
             ELSE [error |-> ApiOk, data |-> d]
        ELSE [error |-> ApiOk, data |-> d]

\* api_handlers["filter_request"](params, data, context, permissions)
filter_request(method, path, d, perm) ==
    CASE path.route = "collection" -> describeCollection_request(path, d, perm)
      [] path.route = "items" -> getFeatures_request(method, path, d, perm)
      [] path.route = "item" -> getFeature_request(method, path, d, perm)
      [] OTHER -> [error |-> ApiOk, data |-> d]

\* the part of OGCAPIService.request before the backend call: the error it
\* returns, or the payload it forwards
OGCAPIService_check(method, path, d, perm) ==
    IF DOMAIN perm = {}
    THEN [error |-> [code |-> "API not found error", status |-> 400], data |-> d]
    ELSE IF allowed_methods(path.route) = {} \/ method \notin allowed_methods(path.route)
    THEN [error |-> [code |-> "Bad request error", status |-> 404], data |-> d]
    ELSE filter_request(method, path, d, perm)

(***************************************************************************)
(* OGCService.request and forward_request (ogc_service.py)                 *)
(***************************************************************************)
\* the handler OGCService.request hands the request to, by SERVICE
process_request(service, request, p, perm, d) ==
    IF service = "WMS"
    THEN LET r == WmsHandler_process_request(request, p, perm)
         IN  [error |-> r.error, raised |-> r.raised, params |-> r.params, data |-> d]
    ELSE WfsHandler_process_request(request, p, perm, d)

\* OGCService.check_request before the per-service checks
check_request(service, request, perm) ==
    IF ~Has(perm, "service_name")
    THEN [code |-> "Service configuration error", subject |-> ""]
    ELSE IF request = "" \/ service = ""
    THEN [code |-> "OperationNotSupported", subject |-> ""]
    ELSE NoError

\* the payload sent along with a forwarded request
RequestBody(d) == IF d.present THEN d.body ELSE <<>>

NoResponse == [status |-> 0, kind |-> "", code |-> "", body |-> ""]

NoAnswer == [status |-> 0, body |-> "", json |-> FALSE, failed |-> FALSE]

\* an uncaught exception: the framework answers 500 Internal Server Error
ServerError == [status |-> 500, kind |-> "crash", code |-> "", body |-> ""]

\* OGCService.service_exception(code, message)
service_exception(code, status) ==
    [status |-> status, kind |-> "ServiceExceptionReport", code |-> code, body |-> ""]

\* OGCService.request: permissions are checked, the handler validates and
\* rewrites the request, forward_request makes the HTTP call
OGCRequest ==
    /\ pc = "received"
    /\ inbound.api = "ogc"
    /\ LET pre == check_request(inbound.service, inbound.request, permissions)
           r == process_request(inbound.service, inbound.request, params,
                                permissions, data)
       IN  IF IsError(pre)
           THEN /\ response' = service_exception(pre.code, 200)
                /\ pc' = "done"
                /\ UNCHANGED <<params, data, forwarded>>
           ELSE IF IsError(r.error)
           THEN /\ response' = service_exception(r.error.code, 200)
                /\ pc' = "done"
                /\ UNCHANGED <<params, data, forwarded>>
           ELSE IF r.raised
           THEN /\ response' = ServerError
                /\ pc' = "done"
                /\ UNCHANGED <<params, data, forwarded>>
           ELSE /\ params' = r.params
                /\ data' = r.data
                /\ forwarded' = Append(forwarded,
                        [method |-> inbound.method, params |-> r.params,
                         body |-> RequestBody(r.data), timeout |-> FALSE])
                /\ pc' = "waiting"
                /\ UNCHANGED response
    /\ UNCHANGED <<inbound, permissions, backend, resources, grants, namespace_map,
                   threads>>

\* self.requested_info_format as process_request set it for this request
HandlerInfoFormat ==
    WmsHandler_process_request(inbound.request, inbound.params, permissions)
        .requested_info_format

\* the content type of the Response WmsHandler.__filter_getfeatureinfo builds
\* for an info_format, "" when no branch returns one
filter_getfeatureinfo_content_type(info_format) ==
    CASE info_format = "text/xml" -> "text/xml"
      [] info_format = "text/plain" -> "text/plain"
      [] info_format = "text/html" -> "text/html"
      [] OTHER -> ""

\* the content type of a filtered answer: the one of the feature info filter,
\* else the backend's
ResponseContentType ==
    IF inbound.service = "WMS" /\ inbound.request = "GETFEATUREINFO"
    THEN filter_getfeatureinfo_content_type(HandlerInfoFormat)
    ELSE "content-type of the backend"

\* a forward_request that calls the backend again after a failure
OGCForwardReturn_Retry ==
    /\ pc = "answered"
    /\ inbound.api = "ogc"
    /\ IF backend.failed \/ backend.status # 200
       THEN /\ forwarded' = Append(forwarded, forwarded[1])
            /\ pc' = "waiting"
            /\ UNCHANGED response
       ELSE /\ response' = [status |-> 200, kind |-> "filtered", code |-> "",
                            body |-> backend.body,
                            content_type |-> ResponseContentType]
            /\ pc' = "done"
            /\ UNCHANGED forwarded
    /\ UNCHANGED <<inbound, params, data, permissions, backend, resources, grants,
                   namespace_map, threads>>

\* the rest of OGCService.forward_request, once requests.get/post returned
\* or raised
OGCForwardReturn ==
    /\ pc = "answered"
    /\ inbound.api = "ogc"
    /\ response' =
        IF backend.failed THEN ServerError
        ELSE IF backend.status # 200
        THEN service_exception("UnknownError", backend.status)
        ELSE [status |-> 200, kind |-> "filtered", code |-> "", body |-> backend.body,
              content_type |-> ResponseContentType]
    /\ pc' = "done"
    /\ UNCHANGED <<inbound, params, data, permissions, forwarded, backend, resources,
                   grants, namespace_map, threads>>

\* OGCAPIService.request up to the backend call
OAPIRequest ==
    /\ pc = "received"
    /\ inbound.api = "features"
    /\ LET r == OGCAPIService_check(inbound.method, inbound.path, data, permissions)
       IN  IF r.error.code # ""
           THEN /\ response' = [status |-> r.error.status, kind |-> "json_error",
                                code |-> r.error.code, body |-> ""]
                /\ pc' = "done"
                /\ UNCHANGED <<data, forwarded>>
           ELSE /\ data' = r.data
                /\ forwarded' = Append(forwarded,
                        [method |-> inbound.method, params |-> params,
                         body |-> RequestBody(r.data), timeout |-> TRUE])
                /\ pc' = "waiting"
                /\ UNCHANGED response
    /\ UNCHANGED <<inbound, params, permissions, backend, resources, grants,
                   namespace_map, threads>>

\* attribute names of the catalog
AttrName == <<"n">>

AttrSecret == <<"s">>

\* self.resources['wfs_services'][service_name]['layers'][layer_name]: the
\* alias of each attribute of the layer
OapiLayerAttributes == (AttrName :> <<"N">>) @@ (AttrSecret :> <<"S">>)

\* the property keys of a feature in the backend's documents: the aliases
BackendProperties == {OapiLayerAttributes[a] : a \in DOMAIN OapiLayerAttributes}

\* alias_attributes.get(key, key) of dict([x[::-1] for x in attributes.items()])
alias_attributes_get(attributes, key) ==
    IF \E a \in DOMAIN attributes : attributes[a] = key
    THEN CHOOSE a \in DOMAIN attributes : attributes[a] = key
    ELSE key

\* __getFeature_response and __getFeatures_response: the property keys kept
\* by dict(filter(...)) on the properties of a feature
getFeature_response(properties, path, perm) ==
    LET layer_name == wfs_clean_layer_name(path.id)
    IN  {k \in properties :
            alias_attributes_get(OapiLayerAttributes, k) \in perm[layer_name].attributes}

\* api_handlers["filter_response"](response_json, context, permissions): the
\* feature properties of the document returned to the client
api_filter_response(path, properties, perm) ==
    IF path.route \in {"items", "item"}
    THEN getFeature_response(properties, path, perm)
    ELSE {}

\* the rest of OGCAPIService.request, once the backend call returned or raised
OAPIReturn ==
    /\ pc = "answered"
    /\ inbound.api = "features"
    /\ response' =
        IF backend.failed THEN ServerError
        ELSE IF backend.status = 201
        THEN [status |-> 201, kind |-> "empty", code |-> "", body |-> ""]
        ELSE IF backend.status = 200 /\ inbound.method = "DELETE"
        THEN [status |-> 204, kind |-> "empty", code |-> "", body |-> ""]
        ELSE IF ~backend.json THEN ServerError
        ELSE IF backend.status >= 400
        THEN [status |-> backend.status, kind |-> "json", code |-> "",
              body |-> backend.body]
        ELSE [status |-> backend.status, kind |-> "filtered", code |-> "",
              body |-> backend.body,
              properties |-> api_filter_response(inbound.path, BackendProperties,
                                                 permissions)]
    /\ pc' = "done"
    /\ UNCHANGED <<inbound, params, data, permissions, forwarded, backend, resources,
                   grants, namespace_map, threads>>

(***************************************************************************)
(* The backend (QGIS Server), seen from the proxy                          *)
(***************************************************************************)
BackendStatus == {200, 201, 404, 500}

BackendBodies == {"body1", "body2"}

\* the backend answers the pending call
BackendAnswer ==
    /\ pc = "waiting"
    /\ \E st \in BackendStatus, b \in BackendBodies, j \in BOOLEAN :
          backend' = [status |-> st, body |-> b, json |-> j, failed |-> FALSE]
    /\ pc' = "answered"
    /\ UNCHANGED <<inbound, params, data, permissions, forwarded, response, resources,
                   grants, namespace_map, threads>>

\* the call fails in transport: requests raises ConnectionError
BackendUnreachable ==
    /\ pc = "waiting"
    /\ backend' = [status |-> 0, body |-> "", json |-> FALSE, failed |-> TRUE]
    /\ pc' = "answered"
    /\ UNCHANGED <<inbound, params, data, permissions, forwarded, response, resources,
                   grants, namespace_map, threads>>

\* the network timeout of the pending call expires: requests raises Timeout
Timeout ==
    /\ pc = "waiting"
    /\ forwarded[Len(forwarded)].timeout
    /\ backend' = [status |-> 0, body |-> "", json |-> FALSE, failed |-> TRUE]
    /\ pc' = "answered"
    /\ UNCHANGED <<inbound, params, data, permissions, forwarded, response, resources,
                   grants, namespace_map, threads>>

(***************************************************************************)
(* Requests and permissions the proxy is run on                            *)
(***************************************************************************)
\* longest LAYERS list of a WMS request
MaxLayers == 2

\* most operations in one WFS Transaction document
MaxOps == 2

\* a dict with key k bound to one of vals, or without the key
Opt(k, vals) == {EmptyDict} \cup {k :> v : v \in vals}

Merge(A, B) == {a @@ b : a \in A, b \in B}

NoPath == [route |-> "", id |-> <<>>]

\* the permissions WmsHandler receives for a permitted service: "G" is a
\* facade over "A" and "B", or over the facade "H" and "B" when nested
WmsPermission(nested) ==
    [service_name |-> "svc",
     public_layers |-> <<"europe", "G">>,
     internal_print_layers |-> <<"osm_bg">>,
     print_templates |-> <<"A4">>,
     permitted_layers |->
        [l \in {"europe", "G", "H", "A", "B", "osm_bg"} |->
            [queryable |-> l \in {"europe", "A"},
             opacity |-> IF l = "B" THEN 50 ELSE IF l = "A" THEN 70 ELSE 100]],
     restricted_group_layers |->
        IF nested THEN ("G" :> <<"H", "B">>) @@ ("H" :> <<"A">>)
        ELSE ("G" :> <<"A", "B">>)]

WmsLayerNames == {"europe", "G", "osm_bg", "hidden", "EXTERNAL_WMS:A"}

LayerLists == UNION {[1..n -> WmsLayerNames] : n \in 1..MaxLayers} \cup {Blank}

WmsVerbs == WmsRequests \cup {"GETLEGENDGRAPHICS", "GETNONEXISTING"}

\* the parameters WmsHandler.process_request reads for a verb, besides LAYERS
WmsExtras(verb) ==
    CASE verb = "GETMAP" ->
            Merge(Opt("FILENAME", {"export.png", ""}),
                  Opt("OPACITIES", {<<NotAnInt>>, <<OpStr(300), OpStr(-5)>>,
                                    <<OpStr(128)>>, <<OpStr(128), NotANumber>>}))
      [] verb = "GETFEATUREINFO" ->
            Merge(Opt("QUERY_LAYERS", {<<"europe">>, <<"G">>}),
                  Opt("INFO_FORMAT", {"text/plain", "text/xml",
                                      "application/vnd.ogc.gml"}))
      [] verb = "GETPRINT" ->
            Merge(Opt("TEMPLATE", {"A4", "A0"}),
                  {EmptyDict, "map0:EXTENT" :> "0,0,1,1"}
                  \cup {("map0:EXTENT" :> "0,0,1,1") @@ ("map0:LAYERS" :> ls) :
                            ls \in {<<"europe">>, <<"hidden">>, <<"osm_bg", "G">>}}
                  \cup {("map0:EXTENT" :> "0,0,1,1") @@ ("map0:LAYERS" :> <<"europe">>)
                            @@ ("map1:LAYERS" :> <<"hidden">>)})
      [] verb = "GETLEGENDGRAPHIC" ->
            Merge(Opt("LAYER", {<<"europe">>, <<"hidden">>}),
                  Opt("FORMAT", {"image/png; mode=8bit"}))
      [] OTHER -> {EmptyDict}

WmsParams(verb) == Merge(Opt("LAYERS", LayerLists), WmsExtras(verb))

\* WFS layer names as character sequences: "a b" is permitted as "a_b"
Lab == <<"a", " ", "b">>

Lghost == <<"z", "z">>

Lcolon == <<"a", ":", "b">>

AttrBang == <<"n", "!">>

WfsPermission(c, u, d) ==
    [service_name |-> "svc",
     permitted_layers |->
        (<<"a", "_", "b">> :> [attributes |-> {AttrName}, creatable |-> c,
                               updatable |-> u, deletable |-> d])]

Feature(tag, attrs) == [tag |-> tag, attrs |-> attrs]

Insert(features) ==
    [kind |-> "Insert", typeName |-> <<>>, features |-> features, props |-> <<>>]

Update(typeName, props) ==
    [kind |-> "Update", typeName |-> typeName, features |-> <<>>, props |-> props]

Delete(typeName) ==
    [kind |-> "Delete", typeName |-> typeName, features |-> <<>>, props |-> <<>>]

TransactionOps ==
    {Insert(<<Feature(t, a)>>) : t \in {Lab, Lghost},
                                 a \in {<<AttrName, AttrSecret, Geometry>>, <<AttrBang>>}}
    \cup {Insert(<<Feature(Lghost, <<AttrName>>), Feature(Lab, <<AttrSecret>>)>>)}
    \cup {Update(t, pr) : t \in {Lab, Lghost},
                          pr \in {<<AttrName, AttrSecret>>, <<AttrSecret, Geometry>>}}
    \cup {Delete(t) : t \in {Lab, Lghost}}

TransactionBodies == UNION {[1..n -> TransactionOps] : n \in 0..MaxOps}

WfsVerbs == WfsRequests \cup {"GETNONEXISTING"}

WfsParams(verb) ==
    IF verb = "TRANSACTION"
    THEN Opt("TYPENAME", {<<Lghost>>})
         \cup {("OPERATION" :> "DELETE") @@ ("FEATUREID" :> <<Lab \o <<".", "1">> >>),
               ("OPERATION" :> "DELETE") @@ ("TYPENAME" :> <<Lab>>)}
    ELSE Merge(Merge(Opt("TYPENAME", {<<Lab>>, <<Lcolon>>, <<Lab, Lghost>>}),
                     Opt("FEATUREID", {<<Lab \o <<".", "1">> >>,
                                       <<Lghost \o <<".", "1">> >>})),
               Merge(Opt("VERSION", {"1.0.0", "2.0.0"}),
                     Opt("OUTPUTFORMAT", {"geojson"})))

\* the merged permissions of one OGC API layer
OapiLayerPermissions ==
    [attributes : {{AttrName}}, writable : BOOLEAN, creatable : BOOLEAN,
     readable : BOOLEAN, updatable : BOOLEAN, deletable : BOOLEAN]

OapiPermission(lp) == <<"a", "_", "b">> :> lp

OapiRoutes ==
    {"landing", "api", "conformance", "collections", "collection", "items", "item",
     "other"}

OapiMethods == {"GET", "POST", "PUT", "PATCH", "DELETE"}

\* request.get_json() of a POST, PUT or PATCH
OapiData(method) ==
    IF method \in {"POST", "PUT", "PATCH"}
    THEN {[present |-> TRUE, body |-> b] :
            b \in {EmptyDict,
                   ("properties" :> {AttrName, AttrSecret, AttrBang})
                        @@ ("modify" :> {AttrName, AttrSecret})}}
    ELSE {NoData}

\* the request as received: inbound keeps it, params and data are the copies
\* the handlers rewrite
Inbound(api, service, request, method, path, p, d) ==
    [api |-> api, service |-> service, request |-> request, method |-> method,
     path |-> path, params |-> p, data |-> d]

WmsInit ==
    /\ \E verb \in WmsVerbs \cup {""} :
          /\ params \in WmsParams(verb)
          /\ inbound = Inbound("ogc", "WMS", verb, "GET", NoPath, params, NoData)
    /\ \/ \E nested \in BOOLEAN : permissions = WmsPermission(nested)
       \/ permissions = EmptyDict /\ ~Has(params, "LAYERS")
    /\ data = NoData

WfsInit ==
    /\ \E verb \in WfsVerbs :
          /\ params \in WfsParams(verb)
          /\ \/ data = NoData
             \/ \E b \in TransactionBodies :
                   /\ data = [present |-> TRUE, body |-> b]
                   /\ \/ verb = "TRANSACTION" /\ ~Has(params, "OPERATION")
                      \/ verb = "GETFEATURE" /\ Len(b) <= 1 /\ DOMAIN params = {}
          /\ inbound = Inbound("ogc", "WFS", verb,
                               IF data.present THEN "POST" ELSE "GET", NoPath,
                               params, data)
    /\ \E c, u, d \in BOOLEAN : permissions = WfsPermission(c, u, d)

OapiInit ==
    /\ params = EmptyDict
    /\ \E route \in OapiRoutes, method \in OapiMethods, id \in {Lab, Lghost} :
          /\ data \in OapiData(method)
          /\ route \notin {"collection", "items", "item"} => id = Lab
          /\ inbound = Inbound("features", "", "", method,
                               [route |-> route, id |-> id], params, data)
    /\ \/ \E lp \in OapiLayerPermissions : permissions = OapiPermission(lp)
       \/ permissions = EmptyDict

Init ==
    /\ pc = "received"
    /\ forwarded = <<>>
    /\ backend = NoAnswer
    /\ response = NoResponse
    /\ resources = Unused
    /\ grants = Unused
    /\ namespace_map = Unused
    /\ threads = Unused
    /\ (WmsInit \/ WfsInit \/ OapiInit)

Next ==
    \/ OGCRequest
    \/ OAPIRequest
    \/ BackendAnswer
    \/ BackendUnreachable
    \/ Timeout
    \/ OGCForwardReturn
    \/ OAPIReturn

Spec == Init /\ [][Next]_vars

(***************************************************************************)
(* Validation failures answer with an exception and reach no backend       *)
(***************************************************************************)
\* the layer list a WMS request is validated on
ValidatedLayers ==
    LET p == inbound.params
        key == IF inbound.request = "GETPRINT" /\ Has(p, "map0:EXTENT")
                  /\ Has(p, "map0:LAYERS") THEN "map0:LAYERS"
               ELSE IF inbound.request = "GETLEGENDGRAPHIC" /\ ~Has(p, "LAYERS")
                       /\ Has(p, "LAYER") THEN "LAYER"
               ELSE "LAYERS"
    IN  IF Has(p, key) /\ p[key] # Blank THEN p[key] ELSE <<>>

\* layers the request may name: public ones, and the internal print layers
\* for a raster export or a print
MayName ==
    SeqToSet(permissions.public_layers) \cup
    (IF inbound.request = "GETPRINT"
        \/ (inbound.request = "GETMAP" /\ Has(inbound.params, "FILENAME")
            /\ inbound.params["FILENAME"] # "")
     THEN SeqToSet(permissions.internal_print_layers) ELSE {})

WmsFailsValidation ==
    LET p == inbound.params
        request == inbound.request
    IN  \/ request \notin WmsRequests
        \/ \E i \in DOMAIN ValidatedLayers :
              /\ ValidatedLayers[i] \notin MayName \cup {"", "EXTERNAL_WMS:A"}
        \/ ValidatedLayers = <<>> /\ request \in layer_mandatory_requests
        \/ /\ request = "GETFEATUREINFO"
           /\ \/ Has(p, "LAYERS") # Has(p, "QUERY_LAYERS")
              \/ Has(p, "LAYERS") /\ p["LAYERS"] # p["QUERY_LAYERS"]
              \/ Has(p, "INFO_FORMAT") /\ p["INFO_FORMAT"] \notin InfoFormats
        \/ /\ request = "GETPRINT"
           /\ \/ ~Has(p, "TEMPLATE")
              \/ \A i \in DOMAIN permissions.print_templates :
                    permissions.print_templates[i] # p["TEMPLATE"]

\* the operation's flag on a permitted layer
OperationAllowed(kind, layer_permissions) ==
    CASE kind = "Insert" -> layer_permissions.creatable
      [] kind = "Update" -> layer_permissions.updatable
      [] OTHER -> layer_permissions.deletable

\* the layers an operation of a Transaction document writes to
WrittenLayers(op) ==
    IF op.kind = "Insert"
    THEN {wfs_clean_layer_name(op.features[j].tag) : j \in DOMAIN op.features}
    ELSE {wfs_clean_layer_name(op.typeName)}

WfsFailsValidation ==
    LET p == inbound.params
        permitted == DOMAIN permissions.permitted_layers
    IN  \/ inbound.request \notin WfsRequests
        \/ /\ Has(p, "TYPENAME")
           /\ \E i \in DOMAIN p["TYPENAME"] :
                 wfs_clean_layer_name(p["TYPENAME"][i]) \notin permitted
        \/ /\ Has(p, "FEATUREID")
           /\ \E i \in DOMAIN p["FEATUREID"] :
                 wfs_clean_layer_name(FirstDotSegment(p["FEATUREID"][i])) \notin permitted
        \/ /\ inbound.request = "TRANSACTION"
           /\ inbound.data.present
           /\ \E i \in DOMAIN inbound.data.body :
                 \E l \in WrittenLayers(inbound.data.body[i]) \cap permitted :
                    ~OperationAllowed(inbound.data.body[i].kind,
                                      permissions.permitted_layers[l])

FailsValidation ==
    /\ inbound.api = "ogc"
    /\ Has(permissions, "service_name")
    /\ inbound.request # ""
    /\ IF inbound.service = "WMS" THEN WmsFailsValidation ELSE WfsFailsValidation

\* C1: a WMS or WFS request that fails validation is answered with an
\* exception document and no HTTP call is made to the backend
C1_InvalidRequestNotForwarded ==
    (pc # "received" /\ FailsValidation)
        => /\ pc = "done"
           /\ forwarded = <<>>
           /\ response.kind = "ServiceExceptionReport"
           /\ response.code # ""

C1_Witness ==
    /\ pc = "done"
    /\ FailsValidation
    /\ inbound.service = "WMS"
    /\ response.code = "LayerNotDefined"
    /\ forwarded = <<>>

(***************************************************************************)
(* WFS Transaction: the write-permission boundary                          *)
(***************************************************************************)
\* a TRANSACTION with a document whose parameters pass the TYPENAME and
\* FEATUREID checks
TransactionRequest ==
    /\ inbound.api = "ogc"
    /\ inbound.service = "WFS"
    /\ inbound.request = "TRANSACTION"
    /\ inbound.data.present
    /\ ~Has(inbound.params, "TYPENAME")
    /\ ~Has(inbound.params, "FEATUREID")

PermittedWfsLayers == DOMAIN permissions.permitted_layers

\* cleaned names of the layers the Insert operations of a document add to
InsertedLayers(body) ==
    UNION {{wfs_clean_layer_name(body[i].features[j].tag) : j \in DOMAIN body[i].features} :
                i \in {k \in DOMAIN body : body[k].kind = "Insert"}}

\* some operation of the received document writes to a permitted layer
\* without the layer's flag for it
LacksFlag ==
    \E i \in DOMAIN inbound.data.body :
        \E l \in WrittenLayers(inbound.data.body[i]) \cap PermittedWfsLayers :
            ~OperationAllowed(inbound.data.body[i].kind, permissions.permitted_layers[l])

\* C3: an Insert for a permitted layer with creatable=false makes the whole
\* Transaction Forbidden; an Insert for a layer absent from the PermissionSet
\* is removed from the body and does not get the request rejected
C3_InsertForbiddenOrDropped ==
    (pc # "received" /\ TransactionRequest) =>
        /\ (\E l \in InsertedLayers(inbound.data.body) \cap PermittedWfsLayers :
                ~permissions.permitted_layers[l].creatable)
            => /\ pc = "done"
               /\ response.code = "Forbidden"
               /\ forwarded = <<>>
        /\ (InsertedLayers(inbound.data.body) \ PermittedWfsLayers # {} /\ ~LacksFlag)
            => /\ response.code # "Forbidden"
               /\ Len(forwarded) = 1
               /\ InsertedLayers(forwarded[1].body) \subseteq PermittedWfsLayers

C3_Witness ==
    /\ pc = "waiting"
    /\ TransactionRequest
    /\ InsertedLayers(inbound.data.body) \ PermittedWfsLayers # {}
    /\ InsertedLayers(inbound.data.body) \cap PermittedWfsLayers # {}
    /\ InsertedLayers(forwarded[1].body) \subseteq PermittedWfsLayers
    /\ InsertedLayers(forwarded[1].body) # {}

\* names allowed in an operation on a layer: the permitted attributes and
\* the geometry
AllowedNames(layer) ==
    permissions.permitted_layers[layer].attributes \cup {Geometry}

\* an operation of a forwarded document stays within the permissions
WithinPermissions(op) ==
    /\ WrittenLayers(op) \subseteq PermittedWfsLayers
    /\ \A j \in DOMAIN op.features : \A k \in DOMAIN op.features[j].attrs :
          wfs_clean_attribute_name(op.features[j].attrs[k])
              \in AllowedNames(wfs_clean_layer_name(op.features[j].tag))
    /\ \A k \in DOMAIN op.props :
          wfs_clean_attribute_name(op.props[k])
              \in AllowedNames(wfs_clean_layer_name(op.typeName))

\* C4: the Transaction body forwarded to the backend has no operation for a
\* layer that is not permitted and, apart from geometry, no inserted
\* attribute or updated Property outside the layer's permitted attributes
C4_ForwardedTransactionFiltered ==
    (inbound.api = "ogc" /\ inbound.service = "WFS" /\ inbound.request = "TRANSACTION")
        => \A c \in DOMAIN forwarded : \A i \in DOMAIN forwarded[c].body :
              WithinPermissions(forwarded[c].body[i])

C4_Witness ==
    /\ pc = "waiting"
    /\ TransactionRequest
    /\ forwarded[1].body # inbound.data.body
    /\ \E i \in DOMAIN inbound.data.body :
          /\ inbound.data.body[i].kind = "Update"
          /\ ~WithinPermissions(inbound.data.body[i])
    /\ \E i \in DOMAIN forwarded[1].body :
          /\ forwarded[1].body[i].kind = "Update"
          /\ forwarded[1].body[i].props # <<>>

(***************************************************************************)
(* OGC API Features: write permissions and visibility                      *)
(***************************************************************************)
CollectionRequest ==
    /\ inbound.api = "features"
    /\ inbound.path.route \in {"collection", "items", "item"}

CollectionKey == wfs_clean_layer_name(inbound.path.id)

\* a write on a layer of the PermissionSet that lacks writable or the flag
\* of the operation
WriteWithoutFlag ==
    /\ CollectionRequest
    /\ CollectionKey \in DOMAIN permissions
    /\ LET lp == permissions[CollectionKey]
       IN  \/ /\ inbound.method = "POST"
              /\ inbound.path.route = "items"
              /\ ~(lp.writable /\ lp.creatable)
           \/ /\ inbound.method \in {"PUT", "PATCH"}
              /\ inbound.path.route = "item"
              /\ ~(lp.writable /\ lp.updatable)
           \/ /\ inbound.method = "DELETE"
              /\ inbound.path.route = "item"
              /\ ~(lp.writable /\ lp.deletable)

\* C5: a POST, PUT, PATCH or DELETE on a layer of the PermissionSet without
\* writable and the operation's flag is answered with HTTP 403 and a
\* Forbidden JSON error, and no backend call is made
C5_WriteWithoutFlagForbidden ==
    (pc # "received" /\ WriteWithoutFlag)
        => /\ pc = "done"
           /\ response.status = 403
           /\ response.kind = "json_error"
           /\ response.code = "Forbidden"
           /\ forwarded = <<>>

C5_Witness ==
    /\ pc = "done"
    /\ WriteWithoutFlag
    /\ inbound.method = "PATCH"
    /\ permissions[CollectionKey].writable
    /\ response.status = 403
    /\ forwarded = <<>>

\* a GET of a collection, its items or one item whose cleaned name is no key
\* of the PermissionSet, or whose entry is not readable
HiddenCollectionRead ==
    /\ CollectionRequest
    /\ inbound.method = "GET"
    /\ \/ CollectionKey \notin DOMAIN permissions
       \/ ~permissions[CollectionKey].readable

\* C6 as stated: such a GET is answered with HTTP 404 and the code
\* "API not found error", and is not forwarded
C6_HiddenCollectionIs404 ==
    (pc # "received" /\ HiddenCollectionRead)
        => /\ pc = "done"
           /\ response.status = 404
           /\ response.code = "API not found error"
           /\ forwarded = <<>>

\* C6: such a GET is answered with the code "API not found error" and is not
\* forwarded; the status is 404 when the PermissionSet has a layer, and 400
\* when the PermissionSet is empty
C6_HiddenCollectionNotFound ==
    (pc # "received" /\ HiddenCollectionRead)
        => /\ pc = "done"
           /\ response.status = (IF DOMAIN permissions = {} THEN 400 ELSE 404)
           /\ response.kind = "json_error"
           /\ response.code = "API not found error"
           /\ forwarded = <<>>

C6_Witness ==
    /\ pc = "done"
    /\ HiddenCollectionRead
    /\ CollectionKey \in DOMAIN permissions
    /\ inbound.path.route = "item"
    /\ response.status = 404
    /\ forwarded = <<>>

(***************************************************************************)
(* Backend failures                                                        *)
(***************************************************************************)
\* the pending call failed in transport or was answered with a non-2xx status
BackendFailed ==
    /\ forwarded # <<>>
    /\ pc \in {"answered", "done"}
    /\ backend.failed \/ backend.status \notin 200..299

\* C8: after a backend failure the client receives a generic error document
\* that carries nothing of the backend's response body
C8_BackendBodyNotEchoed ==
    (pc = "done" /\ BackendFailed)
        => /\ response.body = ""
           /\ response.kind \in {"ServiceExceptionReport", "json_error", "crash"}

\* C9: at most one HTTP call is made to the backend per request, and a failed
\* call or an error status is answered with an error response at once
C9_SingleBackendCall ==
    /\ Len(forwarded) <= 1
    /\ (pc = "done" /\ forwarded # <<>> /\ (backend.failed \/ backend.status >= 400))
        => response.status >= 400
    /\ (pc = "answered" /\ (backend.failed \/ backend.status >= 400))
        => ~ENABLED (OGCRequest \/ OAPIRequest \/ BackendAnswer \/ BackendUnreachable
                        \/ Timeout)

C9_Witness ==
    /\ pc = "done"
    /\ Len(forwarded) = 1
    /\ backend.failed
    /\ response = ServerError

(***************************************************************************)
(* Every request is answered                                               *)
(***************************************************************************)
InitLive ==
    /\ Init
    /\ (inbound.api = "ogc" /\ data.present) => Len(data.body) <= 1
    /\ Has(params, "LAYERS") => Len(params["LAYERS"]) <= 1

\* the proxy keeps running its own steps, and a network timeout that was set
\* expires; nothing obliges the backend to answer
Fairness ==
    /\ WF_vars(OGCRequest)
    /\ WF_vars(OAPIRequest)
    /\ WF_vars(OGCForwardReturn)
    /\ WF_vars(OAPIReturn)
    /\ WF_vars(Timeout)

SpecLive == InitLive /\ [][Next]_vars /\ Fairness

\* C10: every inbound request eventually receives a response
C10_EveryRequestAnswered == <>(pc = "done")

(***************************************************************************)
(* Permission sets (service_permissions)                                   *)
(***************************************************************************)
\* service_permissions raised (KeyError)
Raised == [raised |-> TRUE]

\* the attributes all grants give a layer, as sets
GrantedAttributes(role_grants, name) ==
    UNION {UNION {role_grants[g].layers[i].attributes :
                    i \in {k \in DOMAIN role_grants[g].layers :
                                role_grants[g].layers[k].name = name}} :
            g \in DOMAIN role_grants}

GrantedNames(role_grants) ==
    UNION {{role_grants[g].layers[i].name : i \in DOMAIN role_grants[g].layers} :
            g \in DOMAIN role_grants}

\* OGCService.service_permissions for ows_type WMS
wms_service_permissions(wms_resources, wms_permissions) ==
    LET available_layers == DOMAIN wms_resources.layers
                            \cup DOMAIN wms_resources.group_layers
                            \cup SeqToSet(wms_resources.internal_print_layers)
        permitted_layers == GrantedNames(wms_permissions) \cap available_layers
        \* wms_resources['layers'][name] for a name that is a group or an
        \* internal print layer
        key_error == \E name \in permitted_layers \ DOMAIN wms_resources.layers :
                        GrantedAttributes(wms_permissions, name) # {}
        permitted(seq) == SelectSeq(seq, LAMBDA l : l \in permitted_layers)
    IN  IF wms_permissions = <<>> THEN EmptyDict
        ELSE IF key_error THEN Raised
        ELSE [service_name |-> "svc",
              public_layers |-> permitted(wms_resources.public_layers),
              layers |-> [l \in DOMAIN wms_resources.layers \cap permitted_layers |->
                            SelectSeq(wms_resources.layers[l], LAMBDA a :
                                a \in GrantedAttributes(wms_permissions, l))],
              restricted_group_layers |->
                    [g \in DOMAIN wms_resources.group_layers \cap permitted_layers |->
                        permitted(wms_resources.group_layers[g])],
              internal_print_layers |-> permitted(wms_resources.internal_print_layers)]

\* OGCService.service_permissions for ows_type WFS
wfs_service_permissions(wfs_resources, wfs_permissions) ==
    LET available_layers == DOMAIN wfs_resources.layers
        permitted_layers == GrantedNames(wfs_permissions) \cap available_layers
    IN  IF wfs_permissions = <<>> THEN EmptyDict
        ELSE [service_name |-> "svc",
              public_layers |-> SelectSeq(wfs_resources.layer_order,
                                          LAMBDA l : l \in permitted_layers),
              layers |-> [l \in permitted_layers |->
                            SelectSeq(wfs_resources.layers[l], LAMBDA a :
                                a \in GrantedAttributes(wfs_permissions, l))]]

\* a merge in which the flag of the last grant wins
MergeFlag_LastGrant(merged, granted) == granted

\* permitted_layer.get(flag, False) or layer_permission.get(flag, False)
MergeFlag(merged, granted) == merged \/ granted

\* the body of the loop over layer_permission of service_permissions for
\* api features, for the layer permissions in the order the loops visit them
RECURSIVE MergeLayerPermissions(_, _)
MergeLayerPermissions(permitted_layers, layer_permissions) ==
    IF layer_permissions = <<>> THEN permitted_layers
    ELSE LET layer_permission == Head(layer_permissions)
             layer_name == layer_permission.name
             permitted_layer == IF layer_name \in DOMAIN permitted_layers
                                THEN permitted_layers[layer_name]
                                ELSE [attributes |-> {}]
             get(d, flag) == IF Has(d, flag) THEN d[flag] ELSE FALSE
             flag(f) == MergeFlag(get(permitted_layer, f), get(layer_permission, f))
         IN  MergeLayerPermissions(
                 Put(permitted_layers, layer_name,
                     [attributes |-> permitted_layer.attributes
                                        \cup layer_permission.attributes,
                      writable |-> flag("writable"),
                      creatable |-> flag("creatable"),
                      readable |-> flag("readable"),
                      updatable |-> flag("updatable"),
                      deletable |-> flag("deletable")]),
                 Tail(layer_permissions))

\* OGCAPIService.service_permissions for api features
oapi_service_permissions(wfs_permissions) ==
    MergeLayerPermissions(EmptyDict,
        Concat([g \in DOMAIN wfs_permissions |-> wfs_permissions[g].layers]))

\* most role grants merged into one PermissionSet
MaxGrants == 2

\* the catalog of one service: layers with their attributes, a group layer
\* and an internal print layer
Catalog(with_rivers) ==
    [layers |-> IF with_rivers
                THEN ("roads" :> <<"name", "width">>) @@ ("rivers" :> <<"name">>)
                ELSE ("roads" :> <<"name", "width">>),
     layer_order |-> IF with_rivers THEN <<"roads", "rivers">> ELSE <<"roads">>,
     public_layers |-> <<"G">>,
     group_layers |-> ("G" :> IF with_rivers THEN <<"roads", "rivers">> ELSE <<"roads">>),
     internal_print_layers |-> <<"osm_bg">>]

\* one layer entry of a role's permissions
LayerGrants ==
    [name : {"roads", "rivers", "G", "ghost"}, attributes : {{}, {"name"}, {"name", "depth"}},
     writable : BOOLEAN, creatable : {FALSE}, readable : BOOLEAN, updatable : {FALSE},
     deletable : {FALSE}]

RoleGrants == {[layers |-> <<lg>>] : lg \in LayerGrants}

InitPerm ==
    /\ \E with_rivers \in BOOLEAN : resources = Catalog(with_rivers)
    /\ grants \in UNION {[1..n -> RoleGrants] : n \in 0..MaxGrants}
    /\ pc = "configured"
    /\ permissions = EmptyDict
    /\ inbound = Unused
    /\ params = Unused
    /\ data = Unused
    /\ forwarded = Unused
    /\ backend = Unused
    /\ response = Unused
    /\ namespace_map = Unused
    /\ threads = Unused

WMSPermissions ==
    /\ pc = "configured"
    /\ permissions' = wms_service_permissions(resources, grants)
    /\ pc' = "WMS"
    /\ UNCHANGED <<inbound, params, data, forwarded, backend, response, resources,
                   grants, namespace_map, threads>>

WFSPermissions ==
    /\ pc = "configured"
    /\ permissions' = wfs_service_permissions(resources, grants)
    /\ pc' = "WFS"
    /\ UNCHANGED <<inbound, params, data, forwarded, backend, response, resources,
                   grants, namespace_map, threads>>

OAPIPermissions ==
    /\ pc = "configured"
    /\ permissions' = oapi_service_permissions(grants)
    /\ pc' = "features"
    /\ UNCHANGED <<inbound, params, data, forwarded, backend, response, resources,
                   grants, namespace_map, threads>>

NextPerm == WMSPermissions \/ WFSPermissions \/ OAPIPermissions

SpecPerm == InitPerm /\ [][NextPerm]_vars

\* layers and attributes of the catalog
CatalogLayers ==
    IF pc = "WMS"
    THEN DOMAIN resources.layers \cup DOMAIN resources.group_layers
         \cup SeqToSet(resources.internal_print_layers)
    ELSE DOMAIN resources.layers

CatalogAttributes(layer) ==
    IF layer \in DOMAIN resources.layers THEN SeqToSet(resources.layers[layer]) ELSE {}

\* the layers and the attributes a computed PermissionSet permits
PermittedLayers ==
    IF pc = "features" THEN DOMAIN permissions
    ELSE IF ~Has(permissions, "service_name") THEN {}
    ELSE DOMAIN permissions.layers \cup SeqToSet(permissions.public_layers)
         \cup (IF pc = "WMS"
               THEN DOMAIN permissions.restricted_group_layers
                    \cup SeqToSet(permissions.internal_print_layers)
                    \cup UNION {SeqToSet(permissions.restricted_group_layers[g]) :
                                    g \in DOMAIN permissions.restricted_group_layers}
               ELSE {})

PermittedAttributes(layer) ==
    IF pc = "features" THEN permissions[layer].attributes
    ELSE IF layer \in DOMAIN permissions.layers THEN SeqToSet(permissions.layers[layer])
    ELSE {}

WithinCatalog ==
    /\ PermittedLayers \subseteq CatalogLayers
    /\ \A l \in PermittedLayers : PermittedAttributes(l) \subseteq CatalogAttributes(l)

\* C2: every permitted layer of a computed PermissionSet is a layer of the
\* catalog and every permitted attribute is an attribute of that layer in
\* the catalog
C2_PermissionsWithinCatalog == (pc # "configured") => WithinCatalog

(***************************************************************************)
(* Concurrent requests and the process-wide XML namespace registry         *)
(***************************************************************************)
Reg(prefix, uri) == [prefix |-> prefix, uri |-> uri]

\* NS_MAP of wfs_handler.py, in the order of its items()
NS_MAP ==
    <<Reg("gml", "http://www.opengis.net/gml"),
      Reg("ogc", "http://www.opengis.net/ogc"),
      Reg("ows", "http://www.opengis.net/ows"),
      Reg("qgs", "http://www.qgis.org/gml"),
      Reg("wfs", "http://www.opengis.net/wfs"),
      Reg("xlink", "http://www.w3.org/1999/xlink"),
      Reg("xsi", "http://www.w3.org/2001/XMLSchema-instance"),
      Reg("xml", "http://www.w3.org/2001/XMLSchema")>>

\* xml.etree.ElementTree._namespace_map when the process starts
FreshNamespaceMap ==
    ("http://www.w3.org/XML/1998/namespace" :> "xml")
    @@ ("http://www.w3.org/2001/XMLSchema" :> "xs")
    @@ ("http://www.w3.org/2001/XMLSchema-instance" :> "xsi")

\* ElementTree.register_namespace(prefix, uri): every mapping of the uri or
\* of the prefix is deleted, then the uri is mapped to the prefix
register_namespace(map, prefix, uri) ==
    LET kept == {k \in DOMAIN map : k # uri /\ map[k] # prefix}
    IN  [k \in kept \cup {uri} |-> IF k = uri THEN prefix ELSE map[k]]

RECURSIVE register_namespaces(_, _)
register_namespaces(map, regs) ==
    IF regs = <<>> THEN map
    ELSE register_namespaces(register_namespace(map, Head(regs).prefix, Head(regs).uri),
                             Tail(regs))

XmlDocuments ==
    {"wfs_transaction", "wfs_getcapabilities", "wfs_describefeaturetype",
     "wfs_getfeature_gml", "wms_getcapabilities", "wms_getfeatureinfo"}

\* the register_namespace calls a handler makes before it parses a document
Registrations(document) ==
    CASE document = "wfs_getcapabilities" ->
            Append(NS_MAP, Reg("", "http://www.opengis.net/wfs"))
      [] document = "wfs_describefeaturetype" ->
            Append(NS_MAP, Reg("", "http://www.w3.org/2001/XMLSchema"))
      [] document = "wms_getcapabilities" ->
            <<Reg("", "http://www.opengis.net/wms"),
              Reg("qgs", "http://www.qgis.org/wms"),
              Reg("sld", "http://www.opengis.net/sld"),
              Reg("xlink", "http://www.w3.org/1999/xlink")>>
      [] document = "wms_getfeatureinfo" ->
            <<Reg("", "http://www.opengis.net/ogc")>>
      [] OTHER -> NS_MAP

\* the namespaces of the elements of a document, in document order
DocumentNamespaces(document) ==
    CASE document = "wfs_transaction" ->
            <<"http://www.opengis.net/wfs", "http://www.opengis.net/ogc">>
      [] document = "wfs_getcapabilities" ->
            <<"http://www.opengis.net/wfs", "http://www.opengis.net/ogc">>
      [] document = "wfs_describefeaturetype" ->
            <<"http://www.w3.org/2001/XMLSchema">>
      [] document = "wfs_getfeature_gml" ->
            <<"http://www.opengis.net/wfs", "http://www.opengis.net/gml",
              "http://www.qgis.org/gml">>
      [] document = "wms_getcapabilities" ->
            <<"http://www.opengis.net/wms", "http://www.opengis.net/sld",
              "http://www.qgis.org/wms">>
      [] OTHER -> <<>>

\* "ns%d" % n
GeneratedPrefix(n) == CASE n = 0 -> "ns0" [] n = 1 -> "ns1" [] OTHER -> "ns2"

\* ElementTree.tostring: the prefix each namespace of the document is
\* written with, from _namespace_map or generated
RECURSIVE tostring(_, _, _)
tostring(map, uris, assigned) ==
    IF uris = <<>> THEN <<>>
    ELSE <<IF Head(uris) \in DOMAIN map THEN map[Head(uris)]
           ELSE GeneratedPrefix(assigned)>>
         \o tostring(map, Tail(uris), assigned + 1)

Threads == {1, 2}

\* every thread has a document to filter; alone records what the thread
\* writes when no other thread runs between its two steps
InitConc ==
    /\ namespace_map = FreshNamespaceMap
    /\ threads \in [Threads -> [document : XmlDocuments, pc : {"start"},
                                output : {<<>>}, alone : {<<>>}]]
    /\ pc = Unused
    /\ inbound = Unused
    /\ params = Unused
    /\ data = Unused
    /\ permissions = Unused
    /\ forwarded = Unused
    /\ backend = Unused
    /\ response = Unused
    /\ resources = Unused
    /\ grants = Unused

\* a handler registers its namespaces and parses the document
RegisterNamespaces ==
    /\ \E t \in Threads :
          /\ threads[t].pc = "start"
          /\ LET registered == register_namespaces(namespace_map,
                                                   Registrations(threads[t].document))
             IN  /\ namespace_map' = registered
                 /\ threads' = [threads EXCEPT ![t].pc = "parsed",
                                   ![t].alone = tostring(registered,
                                       DocumentNamespaces(threads[t].document), 0)]
    /\ UNCHANGED <<inbound, params, data, permissions, pc, forwarded, backend, response,
                   resources, grants>>

\* a handler serialises the filtered document
Serialize ==
    /\ \E t \in Threads :
          /\ threads[t].pc = "parsed"
          /\ threads' = [threads EXCEPT ![t].pc = "done",
                            ![t].output = tostring(namespace_map,
                                DocumentNamespaces(threads[t].document), 0)]
    /\ UNCHANGED <<inbound, params, data, permissions, pc, forwarded, backend, response,
                   resources, grants, namespace_map>>

NextConc == RegisterNamespaces \/ Serialize

SpecConc == InitConc /\ [][NextConc]_vars

\* C7: in every interleaving of two requests each request's document is
\* written as if the request had been handled alone
C7_SameAsHandledAlone ==
    \A t \in Threads : threads[t].pc = "done" => threads[t].output = threads[t].alone

(***************************************************************************)
(* WFS response filters (wfs_handler.py)                                   *)
(***************************************************************************)
\* the URL the backend was called at and the URL url_for('ogc', ...) builds
InternalUrl == "http://qgis-server/ows/svc"

UrlFor == "http://localhost/svc"

\* permissions.get('online_resource') or url_for('ogc', ...)
service_url(perm) ==
    IF TruthyStr(perm, "online_resource") THEN perm["online_resource"] ELSE UrlFor

\* child elements of a GML feature: qgs:<attribute> and gml:boundedBy
Qgs(name) == [ns |-> "qgs", name |-> name]

BoundedBy == [ns |-> "gml", name |-> <<"b", "o", "u", "n", "d", "e", "d", "B", "y">>]

\* the same decision as GmlRemoves without the exception for the geometry
GmlRemoves_Geometry(attr, permitted_attributes) ==
    /\ attr # BoundedBy
    /\ wfs_clean_attribute_name(attr.name) \notin permitted_attributes

\* the test of the inner loop of __filter_getfeature_gml on one child
GmlRemoves(attr, permitted_attributes) ==
    /\ attr # BoundedBy
    /\ wfs_clean_attribute_name(attr.name) # Geometry
    /\ wfs_clean_attribute_name(attr.name) \notin permitted_attributes

\* "for attr in feature: ... feature.remove(attr)": the iterator is an index
\* into the live child list, so after a removal at position i the loop goes
\* on at i + 1 of the shortened list
RECURSIVE IterateFeature(_, _, _)
IterateFeature(children, i, permitted_attributes) ==
    IF i > Len(children) THEN children
    ELSE IF GmlRemoves(children[i], permitted_attributes)
    THEN IterateFeature(SubSeq(children, 1, i - 1)
                            \o SubSeq(children, i + 1, Len(children)),
                        i + 1, permitted_attributes)
    ELSE IterateFeature(children, i + 1, permitted_attributes)

\* WfsHandler.__filter_getfeature_gml on the parsed document: every
\* featureMember is the list of its feature elements
filter_getfeature_gml(doc, internal_url, perm) ==
    LET FilterMember(featureMember) ==
            LET kept == SelectSeq(featureMember, LAMBDA feature :
                            WfsPermitted(wfs_clean_layer_name(feature.tag), perm))
            IN  [j \in DOMAIN kept |->
                    [kept[j] EXCEPT !.attrs =
                        IterateFeature(kept[j].attrs, 1,
                            perm.permitted_layers[wfs_clean_layer_name(kept[j].tag)]
                                .attributes)]]
    IN  [schemaLocation |->
            [k \in DOMAIN doc.schemaLocation |->
                IF doc.schemaLocation[k] = internal_url THEN service_url(perm)
                ELSE doc.schemaLocation[k]],
         members |-> [m \in DOMAIN doc.members |-> FilterMember(doc.members[m])]]

\* '.'.join(parts)
RECURSIVE DotJoin(_)
DotJoin(parts) ==
    IF parts = <<>> THEN <<>>
    ELSE IF Len(parts) = 1 THEN Head(parts)
    ELSE Head(parts) \o <<".">> \o DotJoin(Tail(parts))

\* WfsHandler.__filter_getfeature_geojson: id holds feature['id'].split('.'),
\* properties the keys of the ordered dict
filter_getfeature_geojson(doc, perm) ==
    LET typename(feature) ==
            wfs_clean_layer_name(DotJoin(SubSeq(feature.id, 1, Len(feature.id) - 1)))
        kept == SelectSeq(doc.features, LAMBDA feature :
                    WfsPermitted(typename(feature), perm))
    IN  [features |->
            [j \in DOMAIN kept |->
                [kept[j] EXCEPT !.properties =
                    SelectSeq(kept[j].properties, LAMBDA attr_name :
                        wfs_clean_attribute_name(attr_name) \in
                            perm.permitted_layers[typename(kept[j])].attributes)]]]

\* UnboundLocalError: content_type is assigned only for an ok response
FilterRaises(request, status) == request = "GETFEATURE" /\ status # 200

\* WfsHandler.__filter_getfeature
filter_getfeature(answer, p, perm) ==
    IF Has(p, "OUTPUTFORMAT") /\ p["OUTPUTFORMAT"] \in {"geojson", "GeoJSON"}
    THEN filter_getfeature_geojson(answer.body, perm)
    ELSE filter_getfeature_gml(answer.body, answer.url, perm)

\* WfsHandler.__filter_getcapabilities: operations are the Get and Post
\* elements found by './/ows:Get' etc., feature_types the wfs:Name texts of
\* the FeatureType elements of the FeatureTypeList
filter_getcapabilities(doc, p, perm) ==
    LET ns == IF p["VERSION"] = "1.1.0" THEN "ows" ELSE "wfs"
        attribute == IF p["VERSION"] = "1.1.0" THEN "xlink:href" ELSE "onlineResource"
    IN  [operations |->
            [k \in DOMAIN doc.operations |->
                IF doc.operations[k].ns = ns
                THEN [doc.operations[k] EXCEPT
                        !.attrib = Put(@, attribute, service_url(perm))]
                ELSE doc.operations[k]],
         feature_types |->
            SelectSeq(doc.feature_types, LAMBDA name :
                WfsPermitted(wfs_clean_layer_name(name), perm))]

\* complex_type_map of __filter_describefeaturetype: the cleaned name of the
\* last xml:element whose type is qgs:<complex_typename>
complex_type_map(elements) ==
    [t \in {elements[k].type : k \in DOMAIN elements} |->
        LET last == CHOOSE k \in DOMAIN elements :
                        /\ elements[k].type = t
                        /\ \A m \in DOMAIN elements : elements[m].type = t => m <= k
        IN  wfs_clean_layer_name(elements[last].name)]

\* WfsHandler.__filter_describefeaturetype: elements are the xml:element
\* children of the schema (type without its qgs: prefix), complexTypes the
\* xml:complexType children with the names of their sequence's elements
filter_describefeaturetype(doc, perm) ==
    LET map == complex_type_map(doc.elements)
        Known(ct) == ct.name \in DOMAIN map /\ map[ct.name] # <<>>
        kept == SelectSeq(doc.complexTypes, LAMBDA ct :
                    Known(ct) => WfsPermitted(map[ct.name], perm))
    IN  [elements |->
            SelectSeq(doc.elements, LAMBDA element :
                WfsPermitted(wfs_clean_layer_name(element.name), perm)),
         complexTypes |->
            [j \in DOMAIN kept |->
                IF Known(kept[j])
                THEN [kept[j] EXCEPT !.sequence =
                        KeepAttributes(@,
                            perm.permitted_layers[map[kept[j].name]].attributes)]
                ELSE kept[j]]]

\* WfsHandler.filter_response for an answer of the backend: the body of the
\* Response it builds, the answer's own text when the status is not ok
filter_response(request, answer, p, perm) ==
    IF answer.status # 200 THEN answer.body
    ELSE CASE request = "GETCAPABILITIES" -> filter_getcapabilities(answer.body, p, perm)
           [] request = "DESCRIBEFEATURETYPE" ->
                filter_describefeaturetype(answer.body, perm)
           [] request = "GETFEATURE" -> filter_getfeature(answer, p, perm)

(***************************************************************************)
(* Response filtering: the backend's documents and the permissions they    *)
(* are filtered against                                                    *)
(***************************************************************************)
MaxFeatures == 2

\* names as the backend reports them: the layers "a b" (as a_b) and "c:d"
\* (as c-d, or c:d in WFS 1.0.0 capabilities), the attributes n, s and t
Lclean == <<"a", "_", "b">>

Lc == <<"c", "-", "d">>

LcColon == <<"c", ":", "d">>

AttrT == <<"t">>

TypeOf(layer) == layer \o <<"T", "y", "p", "e">>

CatalogAttributesOf(layer) == {AttrName, AttrSecret, AttrT}

LayerPermission(attributes) ==
    [attributes |-> attributes, creatable |-> FALSE, updatable |-> FALSE,
     deletable |-> FALSE]

FilterPermissions ==
    {[service_name |-> "svc", permitted_layers |-> a @@ c] @@ o :
        a \in {EmptyDict} \cup {Lclean :> LayerPermission(s) :
                                    s \in SUBSET CatalogAttributesOf(Lclean)},
        c \in {EmptyDict} \cup {Lc :> LayerPermission(s) :
                                    s \in {{}, {AttrName}, CatalogAttributesOf(Lc)}},
        o \in Opt("online_resource", {"http://public/wfs"})}

SeqsUpTo(S, n) == UNION {[1..k -> S] : k \in 0..n}

GmlChildren ==
    {<<BoundedBy, Qgs(Geometry), Qgs(AttrName), Qgs(AttrSecret), Qgs(AttrT)>>,
     <<Qgs(AttrSecret), Qgs(AttrT), Qgs(AttrName)>>,
     <<Qgs(AttrName), Qgs(AttrSecret)>>,
     <<Qgs(AttrName)>>}

GmlDocuments ==
    {[schemaLocation |-> <<"http://www.qgis.org/gml", InternalUrl>>,
      members |-> [k \in DOMAIN fs |-> <<fs[k]>>]] :
        fs \in SeqsUpTo({Feature(t, a) : t \in {Lclean, Lc}, a \in GmlChildren},
                        MaxFeatures)}

GeoJsonDocuments ==
    {[features |-> fs] :
        fs \in SeqsUpTo({[id |-> <<t, <<"1">> >>, properties |-> a] :
                            t \in {Lclean, Lc},
                            a \in {<<AttrName, AttrSecret, AttrT>>,
                                   <<AttrBang, AttrSecret>>}},
                        MaxFeatures)}

CapabilitiesDocuments(version) ==
    {[operations |->
        [k \in 1..2 |->
            [ns |-> IF version = "1.1.0" THEN "ows" ELSE "wfs",
             tag |-> IF k = 1 THEN "Get" ELSE "Post",
             attrib |-> (IF version = "1.1.0" THEN "xlink:href" ELSE "onlineResource")
                            :> InternalUrl]],
      feature_types |-> names] :
        names \in SeqsUpTo({Lclean, IF version = "1.1.0" THEN Lc ELSE LcColon},
                           MaxFeatures)}

DescribeDocuments ==
    {[elements |-> [k \in DOMAIN ls |-> [name |-> ls[k], type |-> TypeOf(ls[k])]],
      complexTypes |->
        [k \in DOMAIN ls |->
            [name |-> TypeOf(ls[k]),
             sequence |-> IF ls[k] = Lc THEN <<AttrSecret, AttrT, AttrName, Geometry>>
                          ELSE <<Geometry, AttrName, AttrSecret, AttrT>>]]
        \o extra] :
        ls \in SeqsUpTo({Lclean, Lc}, MaxFeatures),
        extra \in {<<>>, <<[name |-> <<"x">>, sequence |-> <<AttrSecret>>]>>}}

FilterDocuments(request, p) ==
    CASE request = "GETCAPABILITIES" -> CapabilitiesDocuments(p["VERSION"])
      [] request = "DESCRIBEFEATURETYPE" -> DescribeDocuments
      [] request = "GETFEATURE" ->
            IF p["OUTPUTFORMAT"] = "geojson" THEN GeoJsonDocuments ELSE GmlDocuments

FilterParams(request) ==
    Merge(Opt("VERSION", {"1.0.0"}),
          IF request = "GETFEATURE" THEN Opt("OUTPUTFORMAT", {"GeoJSON"}) ELSE {EmptyDict})

\* the backend answered a permitted request: params are the rewritten ones
InitFilter ==
    /\ \E request \in {"GETCAPABILITIES", "DESCRIBEFEATURETYPE", "GETFEATURE"} :
          \E p \in FilterParams(request) :
             /\ inbound = Inbound("ogc", "WFS", request, "GET", NoPath, p, NoData)
             /\ params = WfsAdjust(request, p)
             /\ \/ backend \in
                        {[status |-> 200, url |-> InternalUrl, body |-> b] :
                            b \in FilterDocuments(request, WfsAdjust(request, p))}
                \/ backend = [status |-> 500, url |-> InternalUrl, body |-> "error"]
    /\ permissions \in FilterPermissions
    /\ pc = "answered"
    /\ response = NoResponse
    /\ data = NoData
    /\ forwarded = Unused
    /\ resources = Unused
    /\ grants = Unused
    /\ namespace_map = Unused
    /\ threads = Unused

\* the Response WfsHandler.filter_response builds, 500 when it raises
FilteredResponse ==
    IF FilterRaises(inbound.request, backend.status) THEN ServerError
    ELSE [status |-> backend.status, kind |-> "filtered", code |-> "",
          body |-> filter_response(inbound.request, backend, params, permissions)]

\* filter_response for a GetCapabilities answer
FilterGetCapabilities ==
    /\ pc = "answered"
    /\ inbound.request = "GETCAPABILITIES"
    /\ response' = FilteredResponse
    /\ pc' = "done"
    /\ UNCHANGED <<inbound, params, data, permissions, forwarded, backend, resources,
                   grants, namespace_map, threads>>

\* filter_response for a DescribeFeatureType answer
FilterDescribeFeatureType ==
    /\ pc = "answered"
    /\ inbound.request = "DESCRIBEFEATURETYPE"
    /\ response' = FilteredResponse
    /\ pc' = "done"
    /\ UNCHANGED <<inbound, params, data, permissions, forwarded, backend, resources,
                   grants, namespace_map, threads>>

\* filter_response for a GetFeature answer
FilterGetFeature ==
    /\ pc = "answered"
    /\ inbound.request = "GETFEATURE"
    /\ response' = FilteredResponse
    /\ pc' = "done"
    /\ UNCHANGED <<inbound, params, data, permissions, forwarded, backend, resources,
                   grants, namespace_map, threads>>

NextFilter == FilterGetCapabilities \/ FilterDescribeFeatureType \/ FilterGetFeature

SpecFilter == InitFilter /\ [][NextFilter]_vars

(***************************************************************************)
(* Claims about the WFS response filters                                   *)
(***************************************************************************)
\* a filtered GetFeature answer in GML
GmlFiltered ==
    /\ pc = "done"
    /\ inbound.request = "GETFEATURE"
    /\ params["OUTPUTFORMAT"] # "geojson"
    /\ backend.status = 200

\* the children of a backend feature the permissions let through
PermittedChildren(feature) ==
    SelectSeq(feature.attrs, LAMBDA attr :
        \/ attr = BoundedBy
        \/ wfs_clean_attribute_name(attr.name) = Geometry
        \/ wfs_clean_attribute_name(attr.name) \in
              permissions.permitted_layers[wfs_clean_layer_name(feature.tag)].attributes)

\* C11: every feature of a permitted layer in a filtered GetFeature GML
\* response holds exactly its permitted attributes, its geometry and its
\* boundedBy, in their original order
C11_GmlExactlyPermittedAttributes ==
    GmlFiltered =>
        \A m \in DOMAIN backend.body.members :
            LET kept == SelectSeq(backend.body.members[m], LAMBDA feature :
                            WfsPermitted(wfs_clean_layer_name(feature.tag), permissions))
            IN  /\ Len(response.body.members[m]) = Len(kept)
                /\ \A j \in DOMAIN kept :
                      response.body.members[m][j].attrs = PermittedChildren(kept[j])

\* the PermissionSet grants every layer of the catalog with all its attributes
FullPermission ==
    /\ DOMAIN permissions.permitted_layers = {Lclean, Lc}
    /\ \A layer \in {Lclean, Lc} :
          permissions.permitted_layers[layer].attributes = CatalogAttributesOf(layer)

\* an ok answer of the backend was filtered
OkFiltered == pc = "done" /\ backend.status = 200 /\ response.kind = "filtered"

\* C12 as stated: filtering a capabilities, DescribeFeatureType or GetFeature
\* response against a PermissionSet granting every catalog layer and
\* attribute returns the backend's document unchanged
C12_FullPermissionIsIdentity ==
    (OkFiltered /\ FullPermission) => response.body = backend.body

\* C12: against a PermissionSet granting every catalog layer and attribute
\* the filters remove nothing: the filtered document equals the backend's
\* except for the online resource URLs of the capabilities and the internal
\* URL in the schema location of a GML answer, which hold the service URL
C12_FullPermissionKeepsContent ==
    (OkFiltered /\ FullPermission) =>
        CASE inbound.request = "GETCAPABILITIES" ->
                /\ response.body.feature_types = backend.body.feature_types
                /\ DOMAIN response.body.operations = DOMAIN backend.body.operations
                /\ \A k \in DOMAIN backend.body.operations :
                      LET sent == backend.body.operations[k]
                          got == response.body.operations[k]
                      IN  /\ got.ns = sent.ns
                          /\ got.tag = sent.tag
                          /\ DOMAIN got.attrib = DOMAIN sent.attrib
                          /\ \A a \in DOMAIN got.attrib :
                                got.attrib[a] = service_url(permissions)
          [] inbound.request = "GETFEATURE" /\ params["OUTPUTFORMAT"] # "geojson" ->
                /\ response.body.members = backend.body.members
                /\ DOMAIN response.body.schemaLocation = DOMAIN backend.body.schemaLocation
                /\ \A k \in DOMAIN backend.body.schemaLocation :
                      response.body.schemaLocation[k] =
                          IF backend.body.schemaLocation[k] = backend.url
                          THEN service_url(permissions)
                          ELSE backend.body.schemaLocation[k]
          [] OTHER -> response.body = backend.body

C12_Witness ==
    /\ OkFiltered
    /\ FullPermission
    /\ inbound.request = "GETFEATURE"
    /\ params["OUTPUTFORMAT"] # "geojson"
    /\ Len(backend.body.members) = 2
    /\ \E m \in DOMAIN backend.body.members :
          Qgs(Geometry) \in SeqToSet(backend.body.members[m][1].attrs)

(***************************************************************************)
(* Claims about the expansion of facade groups                             *)
(***************************************************************************)
\* a GetMap request was forwarded
ForwardedGetMap ==
    /\ inbound.api = "ogc"
    /\ inbound.service = "WMS"
    /\ inbound.request = "GETMAP"
    /\ forwarded # <<>>

\* the LAYERS value the request came with
InboundLayers == RequestedLayers(inbound.params, "LAYERS")

Reverse(s) == [i \in DOMAIN s |-> s[Len(s) + 1 - i]]

\* C13: a requested facade group is replaced in the forwarded layer list, at
\* its position, by its permitted children in the reverse of their declared
\* order: G with the children [A, B] is forwarded as B,A
C13_FacadeChildrenReversed ==
    ForwardedGetMap =>
        forwarded[1].params["LAYERS"] =
            Join(Concat([i \in DOMAIN InboundLayers |->
                   IF IsFacade(InboundLayers[i], permissions)
                   THEN Reverse(permissions.restricted_group_layers[InboundLayers[i]])
                   ELSE <<InboundLayers[i]>>]))

\* the opacity the i-th requested layer comes with: OPACITIES[i] limited to
\* 0..255, 255 when it is missing or not a number
GroupOpacity(i) ==
    LET given == IF Has(inbound.params, "OPACITIES") THEN inbound.params["OPACITIES"]
                 ELSE <<>>
    IN  IF i <= Len(given) /\ given[i].int
        THEN IF given[i].val < 0 THEN 0
             ELSE IF given[i].val > 255 THEN 255 ELSE given[i].val
        ELSE 255

\* the number of forwarded layers the i-th requested layer stands for
Width(i) ==
    IF IsFacade(InboundLayers[i], permissions)
    THEN Len(permissions.restricted_group_layers[InboundLayers[i]])
    ELSE 1

\* the number of forwarded layers that stand for the first i requested ones
Offset[i \in 0..MaxLayers] == IF i = 0 THEN 0 ELSE Offset[i - 1] + Width(i)

\* C14: every child forwarded for a facade group requested with the opacity
\* P has the opacity P * c / 100 rounded to the nearest integer, c being the
\* child's opacity percentage in the catalog, and the empty style
C14_ChildOpacityRounded ==
    ForwardedGetMap =>
        \A i \in DOMAIN InboundLayers :
            IsFacade(InboundLayers[i], permissions) =>
                \A k \in 1..Width(i) :
                    LET at == Offset[i - 1] + k
                        sent == forwarded[1].params
                        child == sent["LAYERS"][at]
                        c == permissions.permitted_layers[child].opacity
                        error == 100 * sent["OPACITIES"][at].val - GroupOpacity(i) * c
                    IN  /\ child = permissions.restricted_group_layers[InboundLayers[i]][k]
                        /\ sent["OPACITIES"][at].int
                        /\ 2 * error <= 100
                        /\ 2 * error >= -100
                        /\ sent["STYLES"][at] = ""

\* a group requested with opacity 128 was expanded: its child of 70 percent
\* gets 90 for 89.6
C14_Witness ==
    /\ ForwardedGetMap
    /\ \E i \in DOMAIN InboundLayers :
          /\ IsFacade(InboundLayers[i], permissions)
          /\ GroupOpacity(i) = 128
          /\ forwarded[1].params["OPACITIES"][Offset[i - 1] + 1].val = 90

\* a valid GetMap request has been handled
ValidGetMapHandled ==
    /\ inbound.api = "ogc"
    /\ inbound.service = "WMS"
    /\ inbound.request = "GETMAP"
    /\ Has(permissions, "service_name")
    /\ ~WmsFailsValidation
    /\ pc # "received"

\* C15: the expansion of the requested layer list ends with a list in which
\* every facade group is replaced by its permitted children at every nesting
\* depth: the request is forwarded and no forwarded layer is a key of
\* restricted_group_layers, also when children are facade groups themselves
C15_ExpansionReachesLeaves ==
    ValidGetMapHandled =>
        /\ forwarded # <<>>
        /\ \A i \in DOMAIN forwarded[1].params["LAYERS"] :
              ~IsFacade(forwarded[1].params["LAYERS"][i], permissions)

(***************************************************************************)
(* Claims about the validation of WMS requests                             *)
(***************************************************************************)
\* a WMS request with a verb of the handler's list was handled for a service
\* with permissions
WmsHandled ==
    /\ inbound.api = "ogc"
    /\ inbound.service = "WMS"
    /\ inbound.request \in WmsRequests
    /\ Has(permissions, "service_name")
    /\ pc # "received"

\* layers that are permitted for printing and raster export only
PrintOnlyLayers ==
    SeqToSet(permissions.internal_print_layers) \ SeqToSet(permissions.public_layers)

\* the first layer of the validated parameter that is an internal print layer
\* while every layer before it may be named
FirstIsPrintLayer(i) ==
    /\ ValidatedLayers[i] \in PrintOnlyLayers
    /\ \A j \in 1..(i - 1) : ValidatedLayers[j] \in MayName \cup {"", "EXTERNAL_WMS:A"}

\* C16: a request naming an internal print layer passes the layer check only
\* for GETPRINT and for GETMAP with a non-empty FILENAME; for every other
\* verb it is rejected with LayerNotDefined for that layer and not forwarded
C16_PrintLayerOnlyForPrintAndExport ==
    (WmsHandled /\ \E i \in DOMAIN ValidatedLayers : ValidatedLayers[i] \in PrintOnlyLayers)
        => IF \/ inbound.request = "GETPRINT"
              \/ inbound.request = "GETMAP" /\ TruthyStr(inbound.params, "FILENAME")
           THEN (\A i \in DOMAIN ValidatedLayers :
                    ValidatedLayers[i] \in MayName \cup {"", "EXTERNAL_WMS:A"})
                    => response.code # "LayerNotDefined"
           ELSE /\ pc = "done"
                /\ forwarded = <<>>
                /\ response.kind = "ServiceExceptionReport"
                /\ response.code = "LayerNotDefined"
                /\ \A i \in DOMAIN ValidatedLayers :
                      FirstIsPrintLayer(i) =>
                          WmsCheck(inbound.request, inbound.params, permissions).subject
                              = ValidatedLayers[i]

\* a GetMap with an empty FILENAME naming the print layer was rejected
C16_Witness ==
    /\ WmsHandled
    /\ inbound.request = "GETMAP"
    /\ Has(inbound.params, "FILENAME")
    /\ inbound.params["FILENAME"] = ""
    /\ \E i \in DOMAIN ValidatedLayers : FirstIsPrintLayer(i)
    /\ response.code = "LayerNotDefined"

(***************************************************************************)
(* Claims about the merge of role grants                                   *)
(***************************************************************************)
\* the layer entries of all grants
GrantedEntries ==
    UNION {SeqToSet(grants[g].layers) : g \in DOMAIN grants}

\* C17: with several role grants for a layer each capability flag of the
\* merged PermissionSet is the logical OR of the flag across the grants and
\* the attribute set is the union of the granted sets, so the merged result
\* is the same for the grants taken in the opposite order
C17_MergeIsOrAndUnion ==
    (pc = "features") =>
        /\ DOMAIN permissions = {e.name : e \in GrantedEntries}
        /\ \A name \in DOMAIN permissions :
              LET entries == {e \in GrantedEntries : e.name = name}
              IN  /\ permissions[name].attributes = UNION {e.attributes : e \in entries}
                  /\ \A f \in {"writable", "creatable", "readable", "updatable",
                               "deletable"} :
                        permissions[name][f] = (\E e \in entries : e[f])
        /\ permissions = oapi_service_permissions(Reverse(grants))

\* two grants for the same layer that differ in a flag and in the attributes
C17_Witness ==
    /\ pc = "features"
    /\ Len(grants) = 2
    /\ grants[1].layers[1].name = grants[2].layers[1].name
    /\ grants[1].layers[1].writable
    /\ ~grants[2].layers[1].writable
    /\ grants[1].layers[1].attributes # grants[2].layers[1].attributes
    /\ permissions[grants[1].layers[1].name].writable

\* the validation rules a handled WMS request violates
LayerRuleViolated ==
    \E i \in DOMAIN ValidatedLayers :
        ValidatedLayers[i] \notin MayName \cup {"", "EXTERNAL_WMS:A"}

MandatoryLayersMissing ==
    ValidatedLayers = <<>> /\ inbound.request \in layer_mandatory_requests

QueryLayersDiffer ==
    /\ inbound.request = "GETFEATUREINFO"
    /\ \/ Has(inbound.params, "LAYERS") # Has(inbound.params, "QUERY_LAYERS")
       \/ /\ Has(inbound.params, "LAYERS")
          /\ inbound.params["LAYERS"] # inbound.params["QUERY_LAYERS"]

InfoFormatRejected ==
    /\ inbound.request = "GETFEATUREINFO"
    /\ Has(inbound.params, "INFO_FORMAT")
    /\ inbound.params["INFO_FORMAT"] \notin {"text/plain", "text/html", "text/xml"}

TemplateRejected ==
    /\ inbound.request = "GETPRINT"
    /\ \/ ~Has(inbound.params, "TEMPLATE")
       \/ \A i \in DOMAIN permissions.print_templates :
             permissions.print_templates[i] # inbound.params["TEMPLATE"]

\* the error code of the first violated rule, "" when no rule is violated
FirstViolatedRule ==
    IF ~Has(permissions, "service_name") THEN "Service configuration error"
    ELSE IF LayerRuleViolated THEN "LayerNotDefined"
    ELSE IF MandatoryLayersMissing THEN "MissingParameterValue"
    ELSE IF QueryLayersDiffer THEN "InvalidParameterValue"
    ELSE IF InfoFormatRejected THEN "InvalidFormat"
    ELSE IF TemplateRejected THEN "Error"
    ELSE ""

\* C18: a WMS request that violates several validation rules is answered
\* with the error of the first violated rule in the order: empty
\* PermissionSet, layers parameter (LayerNotDefined, MissingParameterValue),
\* GETFEATUREINFO checks (InvalidParameterValue, then InvalidFormat),
\* GETPRINT template
C18_FirstViolatedRuleWins ==
    (/\ inbound.api = "ogc"
     /\ inbound.service = "WMS"
     /\ inbound.request \in WmsRequests
     /\ pc # "received"
     /\ FirstViolatedRule # "")
        => /\ pc = "done"
           /\ forwarded = <<>>
           /\ response.kind = "ServiceExceptionReport"
           /\ response.code = FirstViolatedRule

\* a GetFeatureInfo that violates the layer rule and both GetFeatureInfo rules
C18_Witness ==
    /\ inbound.api = "ogc"
    /\ inbound.service = "WMS"
    /\ Has(permissions, "service_name")
    /\ LayerRuleViolated
    /\ QueryLayersDiffer
    /\ InfoFormatRejected
    /\ response.code = "LayerNotDefined"

\* a WMS request for a service with permissions was handled
WmsAnswered ==
    /\ inbound.api = "ogc"
    /\ inbound.service = "WMS"
    /\ Has(permissions, "service_name")
    /\ pc # "received"

\* the request was rejected as an unsupported operation and not forwarded
RejectedAsUnsupported ==
    /\ pc = "done"
    /\ forwarded = <<>>
    /\ response.kind = "ServiceExceptionReport"
    /\ response.code = "OperationNotSupported"

AskedInfoFormat ==
    IF Has(inbound.params, "INFO_FORMAT") THEN inbound.params["INFO_FORMAT"]
    ELSE "text/plain"

\* a GetFeatureInfo request that passes validation was handled
ValidFeatureInfoHandled ==
    /\ WmsAnswered
    /\ inbound.request = "GETFEATUREINFO"
    /\ ~WmsFailsValidation

\* C20: for every GETFEATUREINFO request that passes validation the
\* INFO_FORMAT sent to the backend is text/xml and the response returned is
\* in the format the request asked for (text/plain, text/html or text/xml)
C20_InfoFormatRestored ==
    ValidFeatureInfoHandled =>
        /\ forwarded # <<>>
        /\ forwarded[1].params["INFO_FORMAT"] = "text/xml"
        /\ (pc = "done" /\ ~backend.failed /\ backend.status = 200)
              => response.content_type = AskedInfoFormat

(***************************************************************************)
(* GetFeatureInfo asks the backend about queryable layers only             *)
(***************************************************************************)
\* a GetFeatureInfo request was forwarded to the backend
ForwardedFeatureInfo ==
    /\ inbound.api = "ogc"
    /\ inbound.service = "WMS"
    /\ inbound.request = "GETFEATUREINFO"
    /\ forwarded # <<>>

\* the layer names of a forwarded layer-list parameter ('' names no layer)
NamedLayers(p, k) == IF Has(p, k) THEN SeqToSet(p[k]) \ {""} ELSE {}

Queryable(layer) ==
    /\ layer \in DOMAIN permissions.permitted_layers
    /\ permissions.permitted_layers[layer].queryable

\* C21: every layer in the LAYERS and QUERY_LAYERS parameters of a
\* GETFEATUREINFO request sent to the backend has queryable=true in the
\* PermissionSet, also the layers obtained by expanding a facade group
C21_ForwardedLayersQueryable ==
    ForwardedFeatureInfo =>
        \A i \in DOMAIN forwarded :
            \A l \in NamedLayers(forwarded[i].params, "LAYERS")
                     \cup NamedLayers(forwarded[i].params, "QUERY_LAYERS") :
                Queryable(l)

\* the facade "G" was asked about: its queryable child "A" is forwarded, its
\* child "B" is not
C21_Witness ==
    /\ ForwardedFeatureInfo
    /\ inbound.params["LAYERS"] = <<"G">>
    /\ forwarded[1].params["LAYERS"] = <<"A">>
    /\ forwarded[1].params["QUERY_LAYERS"] = <<"A">>
    /\ ~Queryable("B")

(***************************************************************************)
(* WMS capabilities filter (wms_handler.py)                                *)
(***************************************************************************)
\* a Layer element: its Name, its queryable and displayField attributes, the
\* names of its Attribute elements and its child Layer elements
Layer(name, queryable, displayField, attributes, layers) ==
    [name |-> name, queryable |-> queryable, displayField |-> displayField,
     attributes |-> attributes, layers |-> layers]

\* the filtering of the Layer children of each group, an order of groups that
\* stops at the children of the first one
FilterLayers_TopLevel(layers, perm) ==
    LET kept == SelectSeq(layers, LAMBDA l : l.name \in SeqToSet(perm.public_layers))
    IN  [i \in DOMAIN kept |->
            [kept[i] EXCEPT !.queryable =
                                IF perm.permitted_layers[kept[i].name].queryable
                                THEN "1" ELSE "0"]]

\* the loop over root_layer.findall('.//Layer/..') of
\* WmsHandler.__filter_getcapabilities, seen from one group: a child that is
\* not in public_layers is removed with all below it, a kept child gets its
\* queryable, loses a displayField and Attribute elements that are not
\* permitted, and is itself one of the groups
RECURSIVE FilterLayers(_, _)
FilterLayers(layers, perm) ==
    LET kept == SelectSeq(layers, LAMBDA l : l.name \in SeqToSet(perm.public_layers))
        permitted_attributes(l) == perm.permitted_layers[l.name].attributes
        aliases(l) == {permitted_attributes(l)[a] : a \in DOMAIN permitted_attributes(l)}
    IN  [i \in DOMAIN kept |->
            [kept[i] EXCEPT
                !.queryable = IF perm.permitted_layers[kept[i].name].queryable
                              THEN "1" ELSE "0",
                !.displayField = IF kept[i].displayField \in aliases(kept[i])
                                 THEN kept[i].displayField ELSE "",
                !.attributes = SelectSeq(kept[i].attributes, LAMBDA a :
                                    a \in DOMAIN permitted_attributes(kept[i])),
                !.layers = FilterLayers(kept[i].layers, perm)]]

\* has_queryable_layers: the groups are listed before any removal, so the
\* children of a removed group count as well
RECURSIVE has_queryable_layers(_, _)
has_queryable_layers(layers, perm) ==
    \E i \in DOMAIN layers :
        \/ /\ layers[i].name \in SeqToSet(perm.public_layers)
           /\ perm.permitted_layers[layers[i].name].queryable
        \/ has_queryable_layers(layers[i].layers, perm)

\* WmsHandler.__filter_getcapabilities on the Layer tree, the
\* LayerDrawingOrder and the ComposerTemplates of an ok answer (the online
\* resources keep the backend's URLs: no override is configured); any other
\* answer is passed on as it is
wms_filter_getcapabilities(answer, perm) ==
    IF answer.status # 200 THEN answer.body
    ELSE LET doc == answer.body
             root_layer == doc.root_layer
         IN  [root_layer |->
                 [root_layer EXCEPT
                     !.layers = FilterLayers(root_layer.layers, perm),
                     !.queryable = IF has_queryable_layers(root_layer.layers, perm)
                                   THEN "1" ELSE "0"],
              drawing_order |->
                 Join(SelectSeq(doc.drawing_order, LAMBDA l :
                          l \in SeqToSet(perm.public_layers))),
              templates |->
                 SelectSeq(doc.templates, LAMBDA t :
                     t \in SeqToSet(perm.print_templates))]

\* WmsHandler.filter_response for GETCAPABILITIES and GETPROJECTSETTINGS
wms_filter_response(request, answer, perm) ==
    IF request \in {"GETCAPABILITIES", "GETPROJECTSETTINGS"}
    THEN wms_filter_getcapabilities(answer, perm)
    ELSE answer.body

(***************************************************************************)
(* Capabilities filtering: the backend's documents and the permissions     *)
(***************************************************************************)
\* the layers of the service: the root layer "wms_test", the group
\* "edit_demo" and the print layer "osm_bg", which is never public
CatalogTree(q) ==
    Layer("wms_test", q, "", <<>>,
        <<Layer("edit_demo", q, "", <<>>,
              <<Layer("edit_points", q, "Point Name", <<"fid", "point_name">>, <<>>),
                Layer("edit_lines", q, "", <<"fid">>, <<>>)>>),
          Layer("europe", q, "", <<"fid">>, <<>>),
          Layer("osm_bg", q, "", <<>>, <<>>)>>)

PublicCatalog == <<"wms_test", "edit_demo", "edit_points", "edit_lines", "europe">>

\* GetCapabilities and GetProjectSettings documents of the backend
WmsCapabilitiesDocuments ==
    {[root_layer |-> CatalogTree(q), drawing_order |-> order, templates |-> <<"A4", "A0">>] :
        q \in {"0", "1"},
        order \in {<<"europe", "edit_points", "osm_bg">>, <<"osm_bg">>}}

\* PermissionSets over the catalog: any non-empty set of granted layers, any
\* of them queryable, edit_points with or without its attribute point_name
CapabilitiesPermissions ==
    {[service_name |-> "svc",
      public_layers |-> SelectSeq(PublicCatalog, LAMBDA l : l \in granted),
      internal_print_layers |-> <<"osm_bg">>,
      print_templates |-> <<"A4">>,
      permitted_layers |->
         [l \in granted \cup {"osm_bg"} |->
             [queryable |-> l \in queryable,
              attributes |-> IF l = "edit_points" /\ named
                             THEN ("fid" :> "fid") @@ ("point_name" :> "Point Name")
                             ELSE IF l \in {"edit_points", "edit_lines", "europe"}
                             THEN "fid" :> "fid" ELSE EmptyDict]]] :
        granted \in (SUBSET SeqToSet(PublicCatalog)) \ {{}},
        queryable \in SUBSET {"wms_test", "edit_points", "europe"},
        named \in BOOLEAN}

\* the backend answered a GetCapabilities or GetProjectSettings request
InitCapabilities ==
    /\ \E request \in {"GETCAPABILITIES", "GETPROJECTSETTINGS"} :
          inbound = Inbound("ogc", "WMS", request, "GET", NoPath, EmptyDict, NoData)
    /\ params = EmptyDict
    /\ \/ backend \in {[status |-> 200, url |-> InternalUrl, body |-> b] :
                            b \in WmsCapabilitiesDocuments}
       \/ backend = [status |-> 500, url |-> InternalUrl, body |-> "error"]
    /\ permissions \in CapabilitiesPermissions
    /\ pc = "answered"
    /\ response = NoResponse
    /\ data = NoData
    /\ forwarded = Unused
    /\ resources = Unused
    /\ grants = Unused
    /\ namespace_map = Unused
    /\ threads = Unused

\* WmsHandler.filter_response and the Response it returns
WmsFilterResponse ==
    /\ pc = "answered"
    /\ response' = [status |-> backend.status, kind |-> "filtered", code |-> "",
                    body |-> wms_filter_response(inbound.request, backend, permissions)]
    /\ pc' = "done"
    /\ UNCHANGED <<inbound, params, data, permissions, forwarded, backend, resources,
                   grants, namespace_map, threads>>

NextCapabilities == WmsFilterResponse

SpecCapabilities == InitCapabilities /\ [][NextCapabilities]_vars

(***************************************************************************)
(* Claims about the WMS capabilities filter                                *)
(***************************************************************************)
\* an ok capabilities answer was filtered
CapabilitiesFiltered == pc = "done" /\ backend.status = 200

\* the Layer elements of a list of layers, at any nesting depth
RECURSIVE LayerElements(_)
LayerElements(layers) ==
    UNION {{layers[i]} \cup LayerElements(layers[i].layers) : i \in DOMAIN layers}

\* the Layer element is public and carries the queryable of its entry
AsPermitted(l) ==
    /\ l.name \in SeqToSet(permissions.public_layers)
    /\ l.queryable = IF permissions.permitted_layers[l.name].queryable THEN "1" ELSE "0"

WfsHandled ==
    /\ inbound.api = "ogc"
    /\ inbound.service = "WFS"
    /\ inbound.request \in WfsRequests
    /\ Has(permissions, "service_name")
    /\ pc # "received"

\* a feature id without its last dot-segment: the layer of the feature
RECURSIVE BeforeLastDot(_)
BeforeLastDot(s) ==
    IF \A i \in DOMAIN s : s[i] # "." THEN <<>>
    ELSE IF s[Len(s)] = "." THEN SubSeq(s, 1, Len(s) - 1)
    ELSE BeforeLastDot(SubSeq(s, 1, Len(s) - 1))

\* the layers the request names in TYPENAME or through a FEATUREID
RequestedWfsLayers ==
    LET p == inbound.params
    IN  (IF Has(p, "TYPENAME")
         THEN {p["TYPENAME"][i] : i \in DOMAIN p["TYPENAME"]} ELSE {})
        \cup (IF Has(p, "FEATUREID")
              THEN {BeforeLastDot(p["FEATUREID"][i]) : i \in DOMAIN p["FEATUREID"]}
              ELSE {})

NamesUnknownLayer ==
    \E l \in RequestedWfsLayers \ {<<>>} :
        wfs_clean_layer_name(l) \notin DOMAIN permissions.permitted_layers

ItemPermissions == permissions[wfs_clean_layer_name(inbound.path.id)]

\* the attributes of the inbound "modify" object that are not permitted
UnpermittedModify ==
    {a \in inbound.data.body["modify"] :
        wfs_clean_attribute_name(a) \notin ItemPermissions.attributes}

\* a PATCH of an item of a writable and updatable layer whose "modify" object
\* names an attribute outside the permitted set
PatchWithUnpermitted ==
    /\ inbound.api = "features"
    /\ inbound.method = "PATCH"
    /\ inbound.path.route = "item"
    /\ Has(permissions, wfs_clean_layer_name(inbound.path.id))
    /\ ItemPermissions.writable
    /\ ItemPermissions.updatable
    /\ inbound.data.present
    /\ Has(inbound.data.body, "modify")
    /\ UnpermittedModify # {}

\* C24: an OGC-API-Features PATCH on a layer with writable and updatable
\* whose modify object names an attribute outside the permitted attribute
\* set is accepted (200 once the backend answers 200); the modify object
\* forwarded to the backend contains no such attribute and every permitted
\* one, the rest of the payload is forwarded as received
C24_PatchDropsUnpermitted ==
    (PatchWithUnpermitted /\ pc # "received") =>
        /\ Len(forwarded) = 1
        /\ forwarded[1].method = "PATCH"
        /\ forwarded[1].body["modify"] = inbound.data.body["modify"] \ UnpermittedModify
        /\ \A k \in DOMAIN inbound.data.body \ {"modify"} :
              forwarded[1].body[k] = inbound.data.body[k]
        /\ DOMAIN forwarded[1].body = DOMAIN inbound.data.body
        /\ (pc = "done" /\ ~backend.failed /\ backend.status = 200 /\ backend.json)
              => response.status = 200

\* the PATCH named n and s, the backend received n only and answered 200
C24_Witness ==
    /\ PatchWithUnpermitted
    /\ pc = "done"
    /\ inbound.data.body["modify"] = {AttrName, AttrSecret}
    /\ forwarded[1].body["modify"] = {AttrName}
    /\ response.status = 200

(***************************************************************************)
(* Claims about the OPACITIES of a GetMap request                          *)
(***************************************************************************)
\* OPACITIES is present but empty
OpacitiesEmpty ==
    Has(inbound.params, "OPACITIES") /\ inbound.params["OPACITIES"] = <<NotAnInt>>

\* the entries of the OPACITIES the request came with
OpacityEntries ==
    IF ~Has(inbound.params, "OPACITIES") \/ OpacitiesEmpty THEN <<>>
    ELSE inbound.params["OPACITIES"]

\* the opacity forwarded for the i-th requested layer, not a facade group
ForwardedOpacity(i) == forwarded[1].params["OPACITIES"][Offset[i - 1] + 1]

\* the i-th requested layer is forwarded as it is
PlainLayer(i) == ~IsFacade(InboundLayers[i], permissions)

\* C25: a requested WMS layer with no corresponding entry in OPACITIES gets
\* opacity 255, except that the first layer gets opacity 0 when the OPACITIES
\* parameter is present but empty
C25_MissingOpacityDefaults ==
    ForwardedGetMap =>
        \A i \in DOMAIN InboundLayers :
            (PlainLayer(i) /\ i > Len(OpacityEntries)) =>
                ForwardedOpacity(i) =
                    OpStr(IF i = 1 /\ OpacitiesEmpty THEN 0 ELSE 255)

\* C26: an OPACITIES entry that is not an integer is resolved to opacity 0,
\* an integer entry outside 0..255 is resolved to 255, and neither causes
\* the request to be rejected
C26_MalformedOpacityCoerced ==
    ValidGetMapHandled =>
        /\ ~(forwarded = <<>> /\ response.kind = "ServiceExceptionReport")
        /\ forwarded # <<>> =>
              \A i \in DOMAIN InboundLayers :
                  (PlainLayer(i) /\ i <= Len(OpacityEntries)) =>
                      LET entry == OpacityEntries[i]
                      IN  /\ ~entry.int => ForwardedOpacity(i) = OpStr(0)
                          /\ (entry.int /\ (entry.val < 0 \/ entry.val > 255)) =>
                                  ForwardedOpacity(i) = OpStr(255)

(***************************************************************************)
(* Every forwarded layer list names permitted layers only                  *)
(***************************************************************************)
\* the layer-list parameters of a WMS request
LayerListParams == {"LAYERS", "LAYER", "QUERY_LAYERS", "map0:LAYERS", "map1:LAYERS"}

\* the children facade expansion can put into a layer list
FacadeChildren ==
    UNION {SeqToSet(permissions.restricted_group_layers[g]) :
            g \in DOMAIN permissions.restricted_group_layers}

\* a WMS request that passes validation was forwarded
ValidWmsForwarded ==
    /\ WmsHandled
    /\ ~WmsFailsValidation
    /\ forwarded # <<>>

\* C27: for every WMS request that passes validation, every layer name in
\* every layer-list parameter forwarded to the backend (LAYERS, LAYER,
\* QUERY_LAYERS and each <mapname>:LAYERS) is a permitted public layer, an
\* allowed internal print layer, a child obtained by facade expansion or an
\* EXTERNAL_WMS reference, also when the request carries both LAYER and
\* LAYERS or several <mapname>:LAYERS parameters
C27_ForwardedLayersPermitted ==
    ValidWmsForwarded =>
        \A k \in LayerListParams \cap DOMAIN forwarded[1].params :
            NamedLayers(forwarded[1].params, k)
                \subseteq MayName \cup FacadeChildren \cup ExternalWmsLayers

(***************************************************************************)
(* Transactions reach the backend with the layer's capability flag only    *)
(***************************************************************************)
\* a WFS Transaction request was forwarded to the backend
ForwardedTransaction ==
    /\ inbound.api = "ogc"
    /\ inbound.service = "WFS"
    /\ inbound.request = "TRANSACTION"
    /\ forwarded # <<>>

\* the layers a forwarded Transaction deletes from through its query
\* parameters (OPERATION=DELETE with TYPENAME or FEATUREID)
DeletedByQuery ==
    LET p == forwarded[1].params
    IN  IF Has(p, "OPERATION") /\ p["OPERATION"] = "DELETE"
        THEN {wfs_clean_layer_name(l) :
                l \in ((IF Has(p, "TYPENAME") THEN SeqToSet(p["TYPENAME"]) ELSE {})
                       \cup (IF Has(p, "FEATUREID")
                             THEN {BeforeLastDot(f) : f \in SeqToSet(p["FEATUREID"])}
                             ELSE {})) \ {<<>>}}
        ELSE {}

\* the layer is permitted with the flag of the operation
HasCapability(kind, layer) ==
    /\ layer \in DOMAIN permissions.permitted_layers
    /\ OperationAllowed(kind, permissions.permitted_layers[layer])

\* every operation of the forwarded XML body writes to layers with its flag
BodyOperationsAllowed ==
    \A i \in DOMAIN forwarded[1].body :
        \A l \in WrittenLayers(forwarded[1].body[i]) :
            HasCapability(forwarded[1].body[i].kind, l)

\* C28: no WFS TRANSACTION request that creates, updates or deletes features
\* of a layer reaches the backend unless that layer's PermissionSet entry
\* has the matching flag (creatable, updatable, deletable), whether the
\* operation is expressed in an XML body or through query parameters
\* without a body
C28_TransactionNeedsCapability ==
    ForwardedTransaction =>
        /\ BodyOperationsAllowed
        /\ \A l \in DeletedByQuery : HasCapability("Delete", l)

\* the collection of the OGC API request is permitted to the identity with
\* readable false
UnreadableCollection ==
    /\ inbound.api = "features"
    /\ inbound.path.route \in {"collection", "items", "item"}
    /\ Has(permissions, wfs_clean_layer_name(inbound.path.id))
    /\ ~permissions[wfs_clean_layer_name(inbound.path.id)].readable

\* the response hands property values of the collection's features to the client
CarriesProperties ==
    /\ pc = "done"
    /\ response.kind = "filtered"
    /\ response.properties # {}

\* C29: an identity whose permissions on a layer have readable false receives
\* no property values of the layer's features in any OGC API Features
\* response, the responses to a successful PUT or PATCH on an item included
C29_UnreadableLayerNeverRead ==
    UnreadableCollection => ~CarriesProperties

\* the same for GET requests only
C29_UnreadableLayerNeverReadByGet ==
    (UnreadableCollection /\ inbound.method = "GET") => ~CarriesProperties

(***************************************************************************)
(* FEATUREID: the layer of the request check and the layer of the GeoJSON  *)
(* filter (wfs_handler.py)                                                 *)
(***************************************************************************)
\* str.split(".")
RECURSIVE SplitDots(_)
SplitDots(s) ==
    IF s = <<>> THEN << <<>> >>
    ELSE IF Head(s) = "." THEN << <<>> >> \o SplitDots(Tail(s))
    ELSE LET rest == SplitDots(Tail(s))
         IN  << <<Head(s)>> \o Head(rest) >> \o Tail(rest)

\* WFS layer names without and with a dot
La == <<"a">>

Ladotb == <<"a", ".", "b">>

FeatureIdLayers == {La, Ladotb, Lab}

\* feature ids as QGIS Server writes them: <typename>.<fid>
FeatureIdOf(layer) == layer \o <<".", "1">>

FeatureIdLists ==
    {<<FeatureIdOf(l)>> : l \in FeatureIdLayers \cup {Lghost}}
        \cup {<<FeatureIdOf(La), FeatureIdOf(l)>> : l \in {Ladotb, Lab}}

FeatureIdPermissions ==
    {[service_name |-> "svc",
      permitted_layers |-> [l \in granted |-> LayerPermission(attrs)]] :
        granted \in SUBSET {wfs_clean_layer_name(l) : l \in FeatureIdLayers},
        attrs \in {{AttrName}, {AttrName, AttrSecret}}}

\* a GetFeature request that addresses features by FEATUREID
InitFeatureId ==
    /\ \E fids \in FeatureIdLists :
          /\ params = ("FEATUREID" :> fids) @@ ("OUTPUTFORMAT" :> "geojson")
          /\ inbound = Inbound("ogc", "WFS", "GETFEATURE", "GET", NoPath, params, NoData)
    /\ permissions \in FeatureIdPermissions
    /\ pc = "received"
    /\ forwarded = <<>>
    /\ backend = NoAnswer
    /\ response = NoResponse
    /\ data = NoData
    /\ resources = Unused
    /\ grants = Unused
    /\ namespace_map = Unused
    /\ threads = Unused

\* the backend answers with the addressed features as GeoJSON: the id of a
\* feature is held as feature['id'].split('.')
FeatureIdAnswer ==
    /\ pc = "waiting"
    /\ \E properties \in {<<AttrName, AttrSecret>>, <<AttrSecret>>} :
          LET fids == forwarded[1].params["FEATUREID"]
          IN  backend' = [status |-> 200, url |-> InternalUrl,
                          body |-> [features |->
                                      [i \in DOMAIN fids |->
                                          [id |-> SplitDots(fids[i]),
                                           properties |-> properties]]]]
    /\ pc' = "answered"
    /\ UNCHANGED <<inbound, params, data, permissions, forwarded, response, resources,
                   grants, namespace_map, threads>>

NextFeatureId == OGCRequest \/ FeatureIdAnswer \/ FilterGetFeature

SpecFeatureId == InitFeatureId /\ [][NextFeatureId]_vars

\* the layer the GeoJSON filter derives from a feature id of the value s
FilterLayerOf(s) ==
    wfs_clean_layer_name(DotJoin(SubSeq(SplitDots(s), 1, Len(SplitDots(s)) - 1)))

\* the layer the request check derives from the FEATUREID value s
CheckLayerOf(s) == wfs_clean_layer_name(FirstDotSegment(s))

\* the request was checked and passed the checks of process_request
PassedValidation == pc # "received" /\ forwarded # <<>>

RequestedFeatureIds == SeqToSet(inbound.params["FEATUREID"])

\* C30: the layer the request check derives from a FEATUREID value is the
\* layer the response filter derives from a feature id of the same value
\* (all but the last dot-segment), so a FEATUREID passes the check exactly
\* when the layer owning the addressed feature is permitted, layer names
\* with dots included
C30_FeatureIdLayerAgrees ==
    pc # "received" =>
        /\ \A s \in RequestedFeatureIds : CheckLayerOf(s) = FilterLayerOf(s)
        /\ PassedValidation <=>
                \A s \in RequestedFeatureIds : WfsPermitted(FilterLayerOf(s), permissions)

\* no FEATUREID of the request names a layer with a dot
DotFreeFeatureIds == \A s \in RequestedFeatureIds : Len(SplitDots(s)) = 2

\* the same for FEATUREID values whose layer name holds no dot
C30_DotFreeFeatureIdLayerAgrees ==
    (pc # "received" /\ DotFreeFeatureIds) =>
        /\ \A s \in RequestedFeatureIds : CheckLayerOf(s) = FilterLayerOf(s)
        /\ PassedValidation <=>
                \A s \in RequestedFeatureIds : WfsPermitted(FilterLayerOf(s), permissions)

\* a FEATUREID of a layer with a dot passed the check although its layer is
\* not permitted, and the filter dropped the feature
C30_DottedPassedUnpermitted ==
    /\ pc = "done"
    /\ response.kind = "filtered"
    /\ \E s \in RequestedFeatureIds :
          /\ Len(SplitDots(s)) > 2
          /\ ~WfsPermitted(FilterLayerOf(s), permissions)
    /\ response.body.features = <<>>

====
